---- MODULE Spec2Model ----
(***************************************************************************)
(* Model of the sequencing coverage calculator:                           *)
(*   coverage_calculator/calculator/effective_output.py                   *)
(*   coverage_calculator/calculator/coverage_model.py                     *)
(*   interface/main_app.py (run)                                           *)
(* Python floats are modelled as exact rationals [n, d] in lowest terms.   *)
(***************************************************************************)
EXTENDS Integers, Sequences, FiniteSets, TLC

VARIABLES pc, inp, stages, calc, result

vars == <<pc, inp, stages, calc, result>>

(***************************************************************************)
(* Bounds of the model.                                                    *)
(***************************************************************************)
MaxLoss == 2
MaxFrag == 3
MaxRead == 3
MaxPct == 3
MaxRegion == 2
MaxDepth == 3
MaxSamples == 2

(***************************************************************************)
(* Python values.                                                          *)
(***************************************************************************)
\* Optional[int]: None is the empty sequence, an int v is <<v>>.
None == <<>>

Some(v) == <<v>>

\* Truth value of an Optional[int] in a boolean context: None and 0 are falsy.
Truthy(x) == x # None /\ x[1] # 0

\* The value of a variable that has not been assigned yet.
Unset == [unset |-> TRUE]

(***************************************************************************)
(* Float arithmetic, as exact rationals.                                   *)
(***************************************************************************)
Abs(a) == IF a < 0 THEN -a ELSE a

RECURSIVE Gcd(_, _)
Gcd(a, b) == IF b = 0 THEN a ELSE Gcd(b, a % b)

Rat(n, d) ==
    LET s == IF d < 0 THEN -1 ELSE 1
        g == Gcd(Abs(n), Abs(d))
    IN  [n |-> (s * n) \div g, d |-> (s * d) \div g]

Float(i) == [n |-> i, d |-> 1]

Zero == Float(0)

One == Float(1)

RAdd(x, y) == Rat(x.n * y.d + y.n * x.d, x.d * y.d)

RSub(x, y) == Rat(x.n * y.d - y.n * x.d, x.d * y.d)

\* Factors are cancelled before multiplying, which keeps the products small.
RMul(x, y) ==
    LET g1 == Gcd(Abs(x.n), y.d)
        g2 == Gcd(Abs(y.n), x.d)
    IN  Rat((x.n \div g1) * (y.n \div g2), (x.d \div g2) * (y.d \div g1))

\* x / y, for y # 0 (Python raises ZeroDivisionError otherwise; callers guard).
RDiv(x, y) == RMul(x, Rat(y.d, y.n))

RLe(x, y) == x.n * y.d <= y.n * x.d

RLt(x, y) == x.n * y.d < y.n * x.d

RMax(x, y) == IF RLt(x, y) THEN y ELSE x

RMin(x, y) == IF RLt(y, x) THEN y ELSE x

RAbs(x) == [n |-> Abs(x.n), d |-> x.d]

\* int(x) for an int x is x itself; max(1, int(x)) on ints.
IMax(a, b) == IF a < b THEN b ELSE a

\* math.exp raises OverflowError ("math range error") above this argument:
\* exp(709) is a double, exp(710) is not.
ExpMax == 709

ExpOverflows(x) == RLt(Float(ExpMax), x)

\* math.exp(x) for x <= ExpMax: exact at 0, otherwise the second-order
\* rational approximant, which keeps the sign of x, monotonicity and the
\* bound exp(x) >= 1 + x.
Exp(x) ==
    LET p == RAdd(One, RAdd(RAbs(x), RDiv(RMul(x, x), Float(2))))
    IN  IF x.n = 0 THEN One
        ELSE IF x.n > 0 THEN p
        ELSE RDiv(One, p)

(***************************************************************************)
(* effective_output.py                                                     *)
(***************************************************************************)
\* Redundancy with the overlap divided by the fragment size.
Redundancy_OverFragment(read_length, fragment_size) ==
    Rat(2 * read_length - fragment_size, fragment_size)

\* redundancy = (2 * read_length - fragment_size) / (2 * read_length)
Redundancy(read_length, fragment_size) ==
    Rat(2 * read_length - fragment_size, 2 * read_length)

\* OverlapApplies with a non-strict comparison of 2L and F.
OverlapApplies_Ge(apply_fragment_model, fragment_size, read_length) ==
    /\ apply_fragment_model
    /\ Truthy(fragment_size)
    /\ Truthy(read_length)
    /\ fragment_size[1] > 0
    /\ read_length[1] > 0
    /\ 2 * read_length[1] >= fragment_size[1]

\* The condition of the fragment/read overlap correction.
OverlapApplies(apply_fragment_model, fragment_size, read_length) ==
    /\ apply_fragment_model
    /\ Truthy(fragment_size)
    /\ Truthy(read_length)
    /\ fragment_size[1] > 0
    /\ read_length[1] > 0
    /\ 2 * read_length[1] > fragment_size[1]

\* EffFraction without the final max(0.0, eff_fraction).
EffFraction_NoClamp(duplication_pct, on_target_pct) ==
    LET dup == RMax(Zero, Float(duplication_pct))
        on_t == RMax(Zero, Float(on_target_pct))
    IN  RMul(RSub(One, RDiv(dup, Float(100))), RDiv(on_t, Float(100)))

\* eff_fraction = max(0, (1 - dup/100) * (on_t/100)), dup and on_t clamped
\* at 0 from below.
EffFraction(duplication_pct, on_target_pct) ==
    LET dup == RMax(Zero, Float(duplication_pct))
        on_t == RMax(Zero, Float(on_target_pct))
        eff == RMul(RSub(One, RDiv(dup, Float(100))), RDiv(on_t, Float(100)))
    IN  RMax(Zero, eff)

\* StageO0 without the clamp at zero.
StageO0_NoClamp(base_output_bp) == Float(base_output_bp)

\* O0: platform/base output, o0 = float(max(0.0, base_output_bp))
StageO0(base_output_bp) == RMax(Zero, Float(base_output_bp))

\* StageO1 keeping the filtered fraction instead of removing it.
StageO1_KeepsLoss(o0, read_filter_loss_pct) ==
    LET q == RMax(Zero, Float(read_filter_loss_pct))
    IN  RMul(o0, RDiv(q, Float(100)))

\* O1: instrument filtering, o1 = o0 * (1 - q/100) with q = max(0.0, loss)
StageO1(o0, read_filter_loss_pct) ==
    LET q == RMax(Zero, Float(read_filter_loss_pct))
    IN  RMul(o0, RSub(One, RDiv(q, Float(100))))

\* O2: fragment/read overlap
StageO2(o1, overlap_applies, redundancy) ==
    IF overlap_applies THEN RMul(o1, RSub(One, redundancy)) ELSE o1

\* The argument of math.exp in the complexity stage, -o2 / rsize
ExpArg(o2, rsize) == RDiv(RSub(Zero, o2), Float(rsize))

\* O3: library complexity, rsize * (1 - exp(-o2 / rsize)) when enabled
StageO3(o2, apply_complexity, rsize) ==
    IF apply_complexity
    THEN RMul(Float(rsize), RSub(One, Exp(ExpArg(o2, rsize))))
    ELSE o2

\* StageO4 applying the GC bias whatever the toggle says.
StageO4_IgnoresToggle(o3, apply_gc_bias, gc_bias_pct) ==
    LET b == RMax(Zero, Float(gc_bias_pct))
    IN  RMul(o3, RSub(One, RDiv(b, Float(100))))

\* O4: GC / sequence bias, o3 * (1 - b/100) with b = max(0.0, gc_bias_pct)
StageO4(o3, apply_gc_bias, gc_bias_pct) ==
    IF apply_gc_bias
    THEN LET b == RMax(Zero, Float(gc_bias_pct))
         IN  RMul(o3, RSub(One, RDiv(b, Float(100))))
    ELSE o3

\* compute_effective_output folding the effective fraction into o4, so that
\* duplication and on-target are applied inside the chain.
compute_effective_output_EffInChain(a) ==
    LET o0 == StageO0(a.base_output_bp)
        o1 == StageO1(o0, a.read_filter_loss_pct)
        overlap_applies ==
            OverlapApplies(a.apply_fragment_model, a.fragment_size, a.read_length)
        redundancy ==
            IF overlap_applies
            THEN Redundancy(a.read_length[1], a.fragment_size[1])
            ELSE Zero
        o2 == StageO2(o1, overlap_applies, redundancy)
        rsize == IMax(1, a.region_size_bp)
        o3 == StageO3(o2, a.apply_complexity, rsize)
        eff == EffFraction(a.duplication_pct, a.on_target_pct)
        o4 == RMul(StageO4(o3, a.apply_gc_bias, a.gc_bias_pct), eff)
    IN  IF a.apply_complexity /\ ExpOverflows(ExpArg(o2, rsize))
        THEN [exc |-> "OverflowError"]
        ELSE [exc |-> "none", o0 |-> o0, o1 |-> o1, o2 |-> o2, o3 |-> o3,
              o4 |-> o4, overlap_applies |-> overlap_applies,
              redundancy |-> redundancy, eff_fraction |-> eff]

\* compute_effective_output(**a): the returned EffectiveOutputStages, or the
\* exception that leaves the function.
compute_effective_output(a) ==
    LET o0 == StageO0(a.base_output_bp)
        o1 == StageO1(o0, a.read_filter_loss_pct)
        overlap_applies ==
            OverlapApplies(a.apply_fragment_model, a.fragment_size, a.read_length)
        redundancy ==
            IF overlap_applies
            THEN Redundancy(a.read_length[1], a.fragment_size[1])
            ELSE Zero
        o2 == StageO2(o1, overlap_applies, redundancy)
        rsize == IMax(1, a.region_size_bp)
        o3 == StageO3(o2, a.apply_complexity, rsize)
        o4 == StageO4(o3, a.apply_gc_bias, a.gc_bias_pct)
    IN  IF a.apply_complexity /\ ExpOverflows(ExpArg(o2, rsize))
        THEN [exc |-> "OverflowError"]
        ELSE [exc |-> "none", o0 |-> o0, o1 |-> o1, o2 |-> o2, o3 |-> o3,
              o4 |-> o4, overlap_applies |-> overlap_applies,
              redundancy |-> redundancy,
              eff_fraction |-> EffFraction(a.duplication_pct, a.on_target_pct)]

(***************************************************************************)
(* coverage_model.py                                                       *)
(***************************************************************************)
\* A call that returns v, and a call that raises e.
Return(v) == [exc |-> "none", val |-> v]

Raise(e) == [exc |-> e]

\* x / y on floats: ZeroDivisionError when y is 0.
TrueDiv(x, y) == IF y.n = 0 THEN Raise("ZeroDivisionError") ELSE Return(RDiv(x, y))

\* CoverageCalculator.__init__ with duplication_pct = 100 accepted.
CoverageCalculator_DupClosed(a) ==
    IF RLe(a.region_size_bp, Zero) THEN
        [exc |-> "ValueError", msg |-> "region_size_bp must be > 0"]
    ELSE IF RLe(a.depth, Zero) THEN
        [exc |-> "ValueError", msg |-> "depth must be > 0"]
    ELSE IF RLe(a.samples, Zero) THEN
        [exc |-> "ValueError", msg |-> "samples must be > 0"]
    ELSE IF RLt(a.output_bp, Zero) THEN
        [exc |-> "ValueError", msg |-> "output_bp must be >= 0"]
    ELSE IF ~(RLe(Zero, a.duplication_pct) /\ RLe(a.duplication_pct, Float(100))) THEN
        [exc |-> "ValueError", msg |-> "duplication_pct must be in [0, 100)"]
    ELSE IF ~(RLt(Zero, a.on_target_pct) /\ RLe(a.on_target_pct, Float(100))) THEN
        [exc |-> "ValueError", msg |-> "on_target_pct must be in (0, 100]"]
    ELSE
        [exc |-> "none", region_size_bp |-> a.region_size_bp, depth |-> a.depth,
         samples |-> a.samples, output_bp |-> a.output_bp,
         duplication_pct |-> a.duplication_pct, on_target_pct |-> a.on_target_pct]

\* The constructor without its output_bp check.
CoverageCalculator_NoOutputCheck(a) ==
    IF RLe(a.region_size_bp, Zero) THEN
        [exc |-> "ValueError", msg |-> "region_size_bp must be > 0"]
    ELSE IF RLe(a.depth, Zero) THEN
        [exc |-> "ValueError", msg |-> "depth must be > 0"]
    ELSE IF RLe(a.samples, Zero) THEN
        [exc |-> "ValueError", msg |-> "samples must be > 0"]
    ELSE IF ~(RLe(Zero, a.duplication_pct) /\ RLt(a.duplication_pct, Float(100))) THEN
        [exc |-> "ValueError", msg |-> "duplication_pct must be in [0, 100)"]
    ELSE IF ~(RLt(Zero, a.on_target_pct) /\ RLe(a.on_target_pct, Float(100))) THEN
        [exc |-> "ValueError", msg |-> "on_target_pct must be in (0, 100]"]
    ELSE
        [exc |-> "none", region_size_bp |-> a.region_size_bp, depth |-> a.depth,
         samples |-> a.samples, output_bp |-> a.output_bp,
         duplication_pct |-> a.duplication_pct, on_target_pct |-> a.on_target_pct]

\* CoverageCalculator.__init__(**a): the constructed object (its fields), or
\* the ValueError of the first failed check.
CoverageCalculator(a) ==
    IF RLe(a.region_size_bp, Zero) THEN
        [exc |-> "ValueError", msg |-> "region_size_bp must be > 0"]
    ELSE IF RLe(a.depth, Zero) THEN
        [exc |-> "ValueError", msg |-> "depth must be > 0"]
    ELSE IF RLe(a.samples, Zero) THEN
        [exc |-> "ValueError", msg |-> "samples must be > 0"]
    ELSE IF RLt(a.output_bp, Zero) THEN
        [exc |-> "ValueError", msg |-> "output_bp must be >= 0"]
    ELSE IF ~(RLe(Zero, a.duplication_pct) /\ RLt(a.duplication_pct, Float(100))) THEN
        [exc |-> "ValueError", msg |-> "duplication_pct must be in [0, 100)"]
    ELSE IF ~(RLt(Zero, a.on_target_pct) /\ RLe(a.on_target_pct, Float(100))) THEN
        [exc |-> "ValueError", msg |-> "on_target_pct must be in (0, 100]"]
    ELSE
        [exc |-> "none", region_size_bp |-> a.region_size_bp, depth |-> a.depth,
         samples |-> a.samples, output_bp |-> a.output_bp,
         duplication_pct |-> a.duplication_pct, on_target_pct |-> a.on_target_pct]

\* CoverageCalculator._effective_yield_fraction
effective_yield_fraction(self) ==
    LET frac == RMul(RSub(One, RDiv(self.duplication_pct, Float(100))),
                     RDiv(self.on_target_pct, Float(100)))
    IN  IF RLt(Zero, frac) THEN frac ELSE Zero

\* calc_samples_per_flow_cell with the required bases multiplied by the
\* effective fraction instead of divided by it.
calc_samples_per_flow_cell_TimesEff(self) ==
    LET eff == effective_yield_fraction(self)
        total_required == Return(RMul(RMul(self.region_size_bp, self.depth), eff))
    IN  IF eff = Zero THEN Return(Zero)
        ELSE IF total_required.val = Zero THEN Return(Zero)
        ELSE TrueDiv(self.output_bp, total_required.val)

\* CoverageCalculator.calc_samples_per_flow_cell
calc_samples_per_flow_cell(self) ==
    LET eff == effective_yield_fraction(self)
        total_required == TrueDiv(RMul(self.region_size_bp, self.depth), eff)
    IN  IF eff = Zero THEN Return(Zero)
        ELSE IF total_required.exc # "none" THEN total_required
        ELSE IF total_required.val = Zero THEN Return(Zero)
        ELSE TrueDiv(self.output_bp, total_required.val)

\* calc_depth dividing the usable bases by the depth field instead of the
\* region size.
calc_depth_OverDepth(self) ==
    LET eff == effective_yield_fraction(self)
        per_sample_output == TrueDiv(self.output_bp, self.samples)
    IN  IF self.samples = Zero \/ self.region_size_bp = Zero THEN Return(Zero)
        ELSE IF per_sample_output.exc # "none" THEN per_sample_output
        ELSE TrueDiv(RMul(per_sample_output.val, eff), self.depth)

\* CoverageCalculator.calc_depth
calc_depth(self) ==
    LET eff == effective_yield_fraction(self)
        per_sample_output == TrueDiv(self.output_bp, self.samples)
    IN  IF self.samples = Zero \/ self.region_size_bp = Zero THEN Return(Zero)
        ELSE IF per_sample_output.exc # "none" THEN per_sample_output
        ELSE TrueDiv(RMul(per_sample_output.val, eff), self.region_size_bp)

\* CoverageCalculator.calc_genome_size
calc_genome_size(self) ==
    LET eff == effective_yield_fraction(self)
        per_sample_output == TrueDiv(self.output_bp, self.samples)
    IN  IF self.samples = Zero \/ self.depth = Zero THEN Return(Zero)
        ELSE IF per_sample_output.exc # "none" THEN per_sample_output
        ELSE TrueDiv(RMul(per_sample_output.val, eff), self.depth)

(***************************************************************************)
(* Arguments of compute_effective_output, in and out of their documented   *)
(* ranges.                                                                 *)
(***************************************************************************)
OutputValues == {-1000, 1000}

LossValues == {-50, 0, 50} \cup {100 * k : k \in 1..MaxLoss}

FragmentValues ==
    {None, Some(-200)} \cup {Some(100 * k) : k \in 2..MaxFrag}

ReadValues == {None} \cup {Some(50 * k) : k \in 2..MaxRead}

GcValues == {-50, 50}

RegionValues == {0, 1000}

PctValues == {50 * k : k \in -1..MaxPct}

StageArgs ==
    [base_output_bp : OutputValues, read_filter_loss_pct : LossValues,
     apply_fragment_model : BOOLEAN, fragment_size : FragmentValues,
     read_length : ReadValues, apply_complexity : BOOLEAN,
     apply_gc_bias : BOOLEAN, gc_bias_pct : GcValues,
     region_size_bp : RegionValues, duplication_pct : PctValues,
     on_target_pct : PctValues]

(***************************************************************************)
(* SpecStages: one call of compute_effective_output on arbitrary arguments.*)
(***************************************************************************)
InitStages ==
    /\ pc = "args"
    /\ inp \in StageArgs
    /\ stages = Unset
    /\ calc = Unset
    /\ result = Unset

ComputeEffectiveOutput ==
    /\ pc = "args"
    /\ stages' = compute_effective_output(inp)
    /\ pc' = IF stages'.exc = "none" THEN "returned" ELSE "raised"
    /\ UNCHANGED <<inp, calc, result>>

NextStages == ComputeEffectiveOutput

SpecStages == InitStages /\ [][NextStages]_vars

(***************************************************************************)
(* SpecCalc: a CoverageCalculator constructed from arbitrary arguments,    *)
(* then any sequence of its calc_* methods.                                *)
(***************************************************************************)
\* The two worked examples of the sample-count formula: a human genome
\* (3,300,000,000 bp at 30x, 2.5 % duplicates, all reads on target) and an
\* exome-sized panel (50,000,000 bp at 100x, 15 % duplicates, 80 % on target)
\* on a 15,000,000,000 bp run.  region_size_bp and output_bp are written in
\* units of 1,000,000 bp: every calc_* result depends on the two only through
\* output_bp / region_size_bp, and the full numbers exceed the integer range.
WorkedExamples ==
    {[region_size_bp |-> Float(3300), depth |-> Float(30), samples |-> Float(1),
      output_bp |-> Float(15000), duplication_pct |-> Rat(5, 2),
      on_target_pct |-> Float(100)],
     [region_size_bp |-> Float(50), depth |-> Float(100), samples |-> Float(1),
      output_bp |-> Float(15000), duplication_pct |-> Float(15),
      on_target_pct |-> Float(80)]}

CalcRegionValues == {Float(500 * k) : k \in -1..MaxRegion}

CalcDepthValues == {Float(10 * k) : k \in -1..MaxDepth}

CalcArgs ==
    [region_size_bp : CalcRegionValues,
     depth : CalcDepthValues,
     samples : {Float(k) : k \in -1..MaxSamples},
     output_bp : {Float(-1000), Float(0), Float(1000)},
     duplication_pct : {Float(v) : v \in PctValues},
     on_target_pct : {Float(v) : v \in PctValues}]
    \cup WorkedExamples

InitCalc ==
    /\ pc = "args"
    /\ inp \in CalcArgs
    /\ stages = Unset
    /\ calc = Unset
    /\ result = Unset

Construct ==
    /\ pc = "args"
    /\ calc' = CoverageCalculator(inp)
    /\ pc' = IF calc'.exc = "none" THEN "constructed" ELSE "raised"
    /\ UNCHANGED <<inp, stages, result>>

CalcSamplesPerFlowCell ==
    /\ pc = "constructed"
    /\ result' = [op |-> "calc_samples_per_flow_cell",
                  out |-> calc_samples_per_flow_cell(calc)]
    /\ UNCHANGED <<pc, inp, stages, calc>>

\* calc_depth storing the solved depth back into the object.
CalcDepth_StoresDepth ==
    /\ pc = "constructed"
    /\ result' = [op |-> "calc_depth", out |-> calc_depth(calc)]
    /\ calc' = [calc EXCEPT !.depth = result'.out.val]
    /\ UNCHANGED <<pc, inp, stages>>

CalcDepth ==
    /\ pc = "constructed"
    /\ result' = [op |-> "calc_depth", out |-> calc_depth(calc)]
    /\ UNCHANGED <<pc, inp, stages, calc>>

CalcGenomeSize ==
    /\ pc = "constructed"
    /\ result' = [op |-> "calc_genome_size", out |-> calc_genome_size(calc)]
    /\ UNCHANGED <<pc, inp, stages, calc>>

NextCalc ==
    \/ Construct
    \/ CalcSamplesPerFlowCell
    \/ CalcDepth
    \/ CalcGenomeSize

SpecCalc == InitCalc /\ [][NextCalc]_vars

(***************************************************************************)
(* SpecRoundTrip: solve for the sample count, construct a second           *)
(* calculator whose samples argument is that count and whose other         *)
(* arguments are those of the first, and solve the second for the depth.   *)
(***************************************************************************)
InitRoundTrip == InitCalc

Reconstruct ==
    /\ pc = "constructed"
    /\ result # Unset
    /\ result.op = "calc_samples_per_flow_cell"
    /\ result.out.exc = "none"
    /\ calc' = CoverageCalculator(
                   [region_size_bp |-> calc.region_size_bp, depth |-> calc.depth,
                    samples |-> result.out.val, output_bp |-> calc.output_bp,
                    duplication_pct |-> calc.duplication_pct,
                    on_target_pct |-> calc.on_target_pct])
    /\ pc' = IF calc'.exc = "none" THEN "reconstructed" ELSE "rejected"
    /\ UNCHANGED <<inp, stages, result>>

RoundTripDepth ==
    /\ pc = "reconstructed"
    /\ result' = [op |-> "calc_depth", out |-> calc_depth(calc)]
    /\ pc' = "round_trip"
    /\ UNCHANGED <<inp, stages, calc>>

NextRoundTrip ==
    \/ Construct
    \/ CalcSamplesPerFlowCell
    \/ Reconstruct
    \/ RoundTripDepth

SpecRoundTrip == InitRoundTrip /\ [][NextRoundTrip]_vars

(***************************************************************************)
(* SpecEval: one evaluation step by step.  The stage chain produces its    *)
(* snapshot, a CoverageCalculator is constructed on the snapshot's o4 with *)
(* the same duplication and on-target percentages, and then any sequence   *)
(* of calc_* methods runs while both objects are alive.                    *)
(***************************************************************************)
EvalArgs ==
    [base_output_bp : {0, 1000}, read_filter_loss_pct : {0, 50},
     apply_fragment_model : BOOLEAN, fragment_size : {Some(200)},
     read_length : {Some(150)}, apply_complexity : BOOLEAN,
     apply_gc_bias : BOOLEAN, gc_bias_pct : {50},
     region_size_bp : RegionValues, duplication_pct : {0, 50, 100},
     on_target_pct : {0, 100}, depth : {0, 30}, samples : {0, 2}]

EvalCalcArgs(a, st) ==
    [region_size_bp |-> Float(a.region_size_bp), depth |-> Float(a.depth),
     samples |-> Float(a.samples), output_bp |-> st.o4,
     duplication_pct |-> Float(a.duplication_pct),
     on_target_pct |-> Float(a.on_target_pct)]

InitEval ==
    /\ pc = "args"
    /\ inp \in EvalArgs
    /\ stages = Unset
    /\ calc = Unset
    /\ result = Unset

EvalStages ==
    /\ pc = "args"
    /\ stages' = compute_effective_output(inp)
    /\ pc' = IF stages'.exc = "none" THEN "staged" ELSE "raised"
    /\ UNCHANGED <<inp, calc, result>>

EvalConstruct ==
    /\ pc = "staged"
    /\ calc' = CoverageCalculator(EvalCalcArgs(inp, stages))
    /\ pc' = IF calc'.exc = "none" THEN "constructed" ELSE "raised"
    /\ UNCHANGED <<inp, stages, result>>

NextEval ==
    \/ EvalStages
    \/ EvalConstruct
    \/ CalcSamplesPerFlowCell
    \/ CalcDepth
    \/ CalcGenomeSize

SpecEval == InitEval /\ [][NextEval]_vars

(***************************************************************************)
(* main_app.py: run(), from the widget values to the result metric.        *)
(***************************************************************************)
Variables == {"Samples per flow cell", "Depth", "Genome size"}

DdradModes == {"fraction_to_genome", "genome_to_fraction"}

\* The known-genome text, by what parse_region_size makes of it: a ValueError,
\* or an integer number of base pairs.
KnownGenomeInputs ==
    {[parses |-> FALSE]} \cup {[parses |-> TRUE, bp |-> v] : v \in {-4, 0, 4}}

\* try: known_genome_bp = parse_region_size(...) except Exception: 0
KnownGenomeBp(known_genome_input) ==
    IF known_genome_input.parses THEN known_genome_input.bp ELSE 0

\* FractionToGenome clamping the percent, not the fraction, at 0.0001.
FractionToGenome_ClampsPercent(target_region_bp, target_fraction_pct) ==
    LET f == RDiv(RMax(Rat(1, 10000), Float(target_fraction_pct)), Float(100))
    IN  TrueDiv(target_region_bp, f)

\* ddRAD mode A: result = target_region_bp / max(0.0001, target_fraction_pct/100)
FractionToGenome(target_region_bp, target_fraction_pct) ==
    LET f == RMax(Rat(1, 10000), RDiv(Float(target_fraction_pct), Float(100)))
    IN  TrueDiv(target_region_bp, f)

\* GenomeToFraction without the upper clamp at 100.
GenomeToFraction_NoUpperClamp(target_region_bp, known_genome_bp) ==
    LET q == TrueDiv(target_region_bp, Float(known_genome_bp))
        frac_pct == IF known_genome_bp > 0 THEN RMul(q.val, Float(100)) ELSE Zero
    IN  IF known_genome_bp > 0 /\ q.exc # "none" THEN q
        ELSE Return(RMax(Zero, frac_pct))

\* GenomeToFraction returning the ratio itself instead of a percentage.
GenomeToFraction_AsRatio(target_region_bp, known_genome_bp) ==
    LET q == TrueDiv(target_region_bp, Float(known_genome_bp))
        frac_pct == IF known_genome_bp > 0 THEN q.val ELSE Zero
    IN  IF known_genome_bp > 0 /\ q.exc # "none" THEN q
        ELSE Return(RMax(Zero, RMin(Float(100), frac_pct)))

\* ddRAD mode B: result = max(0, min(100, target / known * 100)), 0 when the
\* known genome size is not positive.
GenomeToFraction(target_region_bp, known_genome_bp) ==
    LET q == TrueDiv(target_region_bp, Float(known_genome_bp))
        frac_pct == IF known_genome_bp > 0 THEN RMul(q.val, Float(100)) ELSE Zero
    IN  IF known_genome_bp > 0 /\ q.exc # "none" THEN q
        ELSE Return(RMax(Zero, RMin(Float(100), frac_pct)))

\* int(x) of a float: truncation toward zero.  A genome size is a whole
\* number of base pairs wherever run() shows one (int(result)) or reads one
\* (parse_region_size returns int(value * factor)).
IntTrunc(x) ==
    IF x.n >= 0 THEN x.n \div x.d ELSE -((-x.n) \div x.d)

(***************************************************************************)
(* SpecDdrad: the two ddRAD conversions of run() applied one after the     *)
(* other.  Mode A turns a target size and a target fraction into a         *)
(* whole-genome size; mode B is then applied either to the target size     *)
(* with that genome as the known genome, or to the genome itself with      *)
(* G_target / (f/100) as the known genome.                                 *)
(***************************************************************************)
MaxTarget == 4

DdradArgs ==
    [target_region_bp : {Rat(k, 2) : k \in 1..(2 * MaxTarget)} \cup {Float(2000)},
     target_fraction_pct : {1, 20, 30, 50, 100}]

InitDdrad ==
    /\ pc = "args"
    /\ inp \in DdradArgs
    /\ stages = Unset
    /\ calc = Unset
    /\ result = Unset

DdradFractionToGenome ==
    /\ pc = "args"
    /\ result' = [op |-> "fraction_to_genome",
                  out |-> FractionToGenome(inp.target_region_bp,
                                           inp.target_fraction_pct)]
    /\ pc' = IF result'.out.exc = "none" THEN "genome" ELSE "raised"
    /\ UNCHANGED <<inp, stages, calc>>

\* genome_to_fraction(G_target, fraction_to_genome(G_target, f))
DdradBackToFraction ==
    /\ pc = "genome"
    /\ result' = [op |-> "genome_to_fraction", genome |-> result.out.val,
                  out |-> GenomeToFraction(inp.target_region_bp,
                                           IntTrunc(result.out.val))]
    /\ pc' = "back"
    /\ UNCHANGED <<inp, stages, calc>>

\* genome_to_fraction(fraction_to_genome(G_target, f), G_target / (f/100))
DdradGenomeOverGenome ==
    /\ pc = "genome"
    /\ result' = [op |-> "genome_to_fraction", genome |-> result.out.val,
                  out |-> GenomeToFraction(
                              result.out.val,
                              IntTrunc(RDiv(inp.target_region_bp,
                                            Rat(inp.target_fraction_pct, 100))))]
    /\ pc' = "genome_over_genome"
    /\ UNCHANGED <<inp, stages, calc>>

NextDdrad ==
    \/ DdradFractionToGenome
    \/ DdradBackToFraction
    \/ DdradGenomeOverGenome

SpecDdrad == InitDdrad /\ [][NextDdrad]_vars

\* ResultMetric applying the ddRAD mode-A conversion to the depth solve too.
ResultMetric_DdradOnDepth(w, c) ==
    IF w.variable = "Samples per flow cell" THEN
        [label |-> "Samples per Flow Cell", out |-> calc_samples_per_flow_cell(c)]
    ELSE IF w.variable = "Depth" THEN
        [label |-> "Estimated Depth",
         out |-> IF w.ddrad_enabled /\ calc_depth(c).exc = "none"
                 THEN FractionToGenome(calc_depth(c).val, w.target_fraction_pct)
                 ELSE calc_depth(c)]
    ELSE
        LET target == calc_genome_size(c)
        IN  IF target.exc # "none" THEN
                [label |-> "Supported Region Size", out |-> target]
            ELSE IF w.ddrad_enabled /\ w.ddrad_mode = "fraction_to_genome" THEN
                [label |-> "Supported Whole-Genome Size (ddRAD)",
                 out |-> FractionToGenome(target.val, w.target_fraction_pct)]
            ELSE IF w.ddrad_enabled THEN
                [label |-> "Target fraction of genome (ddRAD)",
                 out |-> GenomeToFraction(target.val,
                                          KnownGenomeBp(w.known_genome_input))]
            ELSE
                [label |-> "Supported Region Size", out |-> target]

\* The "Prepare result metric" branch of run(): the label and the number
\* shown, or the exception of the solve.
ResultMetric(w, c) ==
    IF w.variable = "Samples per flow cell" THEN
        [label |-> "Samples per Flow Cell", out |-> calc_samples_per_flow_cell(c)]
    ELSE IF w.variable = "Depth" THEN
        [label |-> "Estimated Depth", out |-> calc_depth(c)]
    ELSE
        LET target == calc_genome_size(c)
        IN  IF target.exc # "none" THEN
                [label |-> "Supported Region Size", out |-> target]
            ELSE IF w.ddrad_enabled /\ w.ddrad_mode = "fraction_to_genome" THEN
                [label |-> "Supported Whole-Genome Size (ddRAD)",
                 out |-> FractionToGenome(target.val, w.target_fraction_pct)]
            ELSE IF w.ddrad_enabled THEN
                [label |-> "Target fraction of genome (ddRAD)",
                 out |-> GenomeToFraction(target.val,
                                          KnownGenomeBp(w.known_genome_input))]
            ELSE
                [label |-> "Supported Region Size", out |-> target]

\* The arguments run() passes to compute_effective_output.
RunStageArgs(w) ==
    [base_output_bp |-> w.output_bp, read_filter_loss_pct |-> w.read_filter_loss,
     apply_fragment_model |-> w.apply_fragment_model,
     fragment_size |-> w.fragment_size, read_length |-> w.read_length,
     apply_complexity |-> w.apply_complexity, apply_gc_bias |-> w.apply_gc_bias,
     gc_bias_pct |-> w.gc_bias_percent,
     region_size_bp |-> IMax(1, w.region_size),
     duplication_pct |-> w.duplication, on_target_pct |-> w.on_target]

\* RunCalcArgs handing over o4 already multiplied by the effective fraction.
RunCalcArgs_EffTwice(w, st) ==
    [region_size_bp |-> Float(IMax(1, w.region_size)), depth |-> Float(w.depth),
     samples |-> Float(w.samples), output_bp |-> RMul(st.o4, st.eff_fraction),
     duplication_pct |-> Float(w.duplication),
     on_target_pct |-> Float(w.on_target)]

\* The arguments run() passes to CoverageCalculator.
RunCalcArgs(w, st) ==
    [region_size_bp |-> Float(IMax(1, w.region_size)), depth |-> Float(w.depth),
     samples |-> Float(w.samples), output_bp |-> st.o4,
     duplication_pct |-> Float(w.duplication),
     on_target_pct |-> Float(w.on_target)]

\* The values the widgets of run() return: advanced_options_ui gives no
\* fragment size / read length when the fragment toggle is off and a GC bias
\* of 0.0 when the GC toggle is off; duplication and on-target come from
\* number inputs (0..50, 0..100) or from the selected preset; depth and
\* samples are number inputs without a minimum.
RunWidgets ==
    {w \in [variable : Variables, region_size : {0, 1000}, depth : {0, 30},
            samples : {0, 2}, output_bp : {0, 300}, read_filter_loss : {0, 20},
            apply_fragment_model : BOOLEAN,
            fragment_size : {None, Some(200)},
            read_length : {None, Some(150)},
            apply_complexity : BOOLEAN, apply_gc_bias : BOOLEAN,
            gc_bias_percent : {0, 20},
            duplication : {0, 50, 100}, on_target : {0, 50, 100},
            ddrad_enabled : BOOLEAN, ddrad_mode : DdradModes,
            target_fraction_pct : {0, 50},
            known_genome_input : KnownGenomeInputs] :
        /\ (w.fragment_size = None) <=> ~w.apply_fragment_model
        /\ (w.read_length = None) <=> ~w.apply_fragment_model
        /\ ~w.apply_gc_bias => w.gc_bias_percent = 0}

InitRun ==
    /\ pc = "widgets"
    /\ inp \in RunWidgets
    /\ stages = Unset
    /\ calc = Unset
    /\ result = Unset

\* One run of the script past its widgets: stage chain, calculator, result
\* metric. An exception of any step ends the run there.
Run ==
    /\ pc = "widgets"
    /\ stages' = compute_effective_output(RunStageArgs(inp))
    /\ calc' = IF stages'.exc = "none"
               THEN CoverageCalculator(RunCalcArgs(inp, stages'))
               ELSE Unset
    /\ result' = IF stages'.exc = "none" /\ calc'.exc = "none"
                 THEN ResultMetric(inp, calc')
                 ELSE Unset
    /\ pc' = IF result' # Unset /\ result'.out.exc = "none"
             THEN "shown"
             ELSE "raised"
    /\ UNCHANGED inp

NextRun == Run

SpecRun == InitRun /\ [][NextRun]_vars

(***************************************************************************)
(* config_codec.py.  Text and bytes are sequences of character codes       *)
(* (the JSON and base64 texts here are ASCII, so UTF-8 maps each character *)
(* to the byte of the same value).  Python values are tagged records:      *)
(* int, float, str, bool, None, list, tuple, and dict as a function from   *)
(* its keys (texts) to values.                                             *)
(***************************************************************************)
PyInt(n) == [t |-> "int", v |-> n]

\* A float as a rational; inf is 1/0, -inf is -1/0 and nan is 0/0.
PyFloat(x) == [t |-> "float", v |-> x]

PyInf == PyFloat([n |-> 1, d |-> 0])

PyNan == PyFloat([n |-> 0, d |-> 0])

PyStr(s) == [t |-> "str", v |-> s]

PyBool(b) == [t |-> "bool", v |-> b]

PyNone == [t |-> "None"]

PyList(items) == [t |-> "list", v |-> items]

PyTuple(items) == [t |-> "tuple", v |-> items]

PyDict(f) == [t |-> "dict", v |-> f]

EmptyDict == PyDict([k \in {} |-> PyNone])

\* Character codes of the punctuation of JSON and of the encoded strings.
ChQuote == 34

ChBackslash == 92

ChComma == 44

ChColon == 58

ChDot == 46

ChMinus == 45

ChEquals == 61

ChZero == 48

ChLBrace == 123

ChRBrace == 125

ChLBracket == 91

ChRBracket == 93

\* "true", "false", "null", "NaN", "Infinity"
TxtTrue == <<116, 114, 117, 101>>

TxtFalse == <<102, 97, 108, 115, 101>>

TxtNull == <<110, 117, 108, 108>>

TxtNaN == <<78, 97, 78>>

TxtInfinity == <<73, 110, 102, 105, 110, 105, 116, 121>>

StartsWith(s, prefix) ==
    Len(s) >= Len(prefix) /\ SubSeq(s, 1, Len(prefix)) = prefix

\* The parts one after the other (joined by halves).
RECURSIVE Concat(_)
Concat(parts) ==
    IF parts = <<>> THEN <<>>
    ELSE IF Len(parts) = 1 THEN parts[1]
    ELSE Concat(SubSeq(parts, 1, Len(parts) \div 2))
         \o Concat(SubSeq(parts, (Len(parts) \div 2) + 1, Len(parts)))

\* The sum of f[lo..hi] (added by halves).
RECURSIVE Sum(_, _, _)
Sum(f, lo, hi) ==
    IF lo > hi THEN 0
    ELSE IF lo = hi THEN f[lo]
    ELSE Sum(f, lo, (lo + hi) \div 2) + Sum(f, ((lo + hi) \div 2) + 1, hi)

\* The one element of a set of one element.
Only(S) == CHOOSE v \in S : TRUE

\* Order of str values (by code point), used by sort_keys=True.
RECURSIVE StrLt(_, _)
StrLt(a, b) ==
    IF b = <<>> THEN FALSE
    ELSE IF a = <<>> THEN TRUE
    ELSE IF Head(a) # Head(b) THEN Head(a) < Head(b)
    ELSE StrLt(Tail(a), Tail(b))

RECURSIVE SortedKeys(_)
SortedKeys(keys) ==
    IF keys = {} THEN <<>>
    ELSE LET first == CHOOSE k \in keys : \A o \in keys : o = k \/ StrLt(k, o)
         IN  <<first>> \o SortedKeys(keys \ {first})

\* Decimal digits of a natural number.
RECURSIVE Digits(_)
Digits(n) ==
    IF n < 10 THEN <<ChZero + n>>
    ELSE Digits(n \div 10) \o <<ChZero + (n % 10)>>

\* Four lower-case hexadecimal digits of h.
HexDigit(v) == IF v < 10 THEN ChZero + v ELSE 97 + (v - 10)

Hex4(h) ==
    <<HexDigit(h \div 4096), HexDigit((h \div 256) % 16),
      HexDigit((h \div 16) % 16), HexDigit(h % 16)>>

\* The letter after the backslash in the short escapes of JSON, and the
\* character each stands for: b, f, n, r, t.
ShortEscapes == (98 :> 8) @@ (102 :> 12) @@ (110 :> 10) @@ (114 :> 13) @@ (116 :> 9)

\* json.dumps of a str (ensure_ascii=False): quotes around it; '"', '\' and
\* the control characters escaped.
EscapeChar(c) ==
    IF c \in {ChQuote, ChBackslash} THEN <<ChBackslash, c>>
    ELSE IF \E e \in DOMAIN ShortEscapes : ShortEscapes[e] = c
    THEN <<ChBackslash, CHOOSE e \in DOMAIN ShortEscapes : ShortEscapes[e] = c>>
    ELSE IF c < 32 THEN <<ChBackslash, 117>> \o Hex4(c)
    ELSE <<c>>

EscapeChars(s) == Concat([k \in 1..Len(s) |-> EscapeChar(s[k])])

DumpsStr(s) == <<ChQuote>> \o EscapeChars(s) \o <<ChQuote>>

\* json.dumps(value, separators=(",", ":"), ensure_ascii=False,
\* sort_keys=True): lists and tuples both become arrays, nan and the
\* infinities become NaN, Infinity, -Infinity.  Floats are written with one
\* decimal digit, which is exact for the floats used here.
RECURSIVE Dumps(_)
RECURSIVE DumpsItems(_)
RECURSIVE DumpsMembers(_, _)
Dumps(value) ==
    CASE value.t = "int" ->
            IF value.v < 0 THEN <<ChMinus>> \o Digits(-value.v) ELSE Digits(value.v)
      [] value.t = "float" ->
            IF value.v.d = 0 THEN
                (IF value.v.n = 0 THEN TxtNaN
                 ELSE IF value.v.n > 0 THEN TxtInfinity
                 ELSE <<ChMinus>> \o TxtInfinity)
            ELSE (IF value.v.n < 0 THEN <<ChMinus>> ELSE <<>>)
                 \o Digits(Abs(value.v.n) \div value.v.d) \o <<ChDot>>
                 \o Digits(((Abs(value.v.n) % value.v.d) * 10) \div value.v.d)
      [] value.t = "str" -> DumpsStr(value.v)
      [] value.t = "bool" -> IF value.v THEN TxtTrue ELSE TxtFalse
      [] value.t = "None" -> TxtNull
      [] value.t \in {"list", "tuple"} ->
            <<ChLBracket>> \o DumpsItems(value.v) \o <<ChRBracket>>
      [] value.t = "dict" ->
            <<ChLBrace>> \o DumpsMembers(value.v, SortedKeys(DOMAIN value.v))
            \o <<ChRBrace>>

DumpsItems(items) ==
    IF items = <<>> THEN <<>>
    ELSE Dumps(Head(items))
         \o (IF Tail(items) = <<>> THEN <<>> ELSE <<ChComma>>)
         \o DumpsItems(Tail(items))

DumpsMembers(f, keys) ==
    IF keys = <<>> THEN <<>>
    ELSE DumpsStr(Head(keys)) \o <<ChColon>> \o Dumps(f[Head(keys)])
         \o (IF Tail(keys) = <<>> THEN <<>> ELSE <<ChComma>>)
         \o DumpsMembers(f, Tail(keys))

\* json.loads: a recursive-descent parser of the JSON grammar (with the NaN
\* and Infinity literals Python accepts).  Each Parse operator reads one
\* construct of text s at position i and gives the value and the position
\* after it, or no match.  Of the string escapes only \" and \\ are read.
NoMatch == [ok |-> FALSE]

Match(value, next) == [ok |-> TRUE, val |-> value, next |-> next]

IsDigit(c) == c >= ChZero /\ c <= ChZero + 9

RECURSIVE SkipWs(_, _)
SkipWs(s, i) ==
    IF i <= Len(s) /\ s[i] \in {32, 9, 10, 13} THEN SkipWs(s, i + 1) ELSE i

\* The position after the run of digits that starts at i.
RECURSIVE SkipDigits(_, _)
SkipDigits(s, i) ==
    IF i <= Len(s) /\ IsDigit(s[i]) THEN SkipDigits(s, i + 1) ELSE i

\* The number written by the digits s[i..j-1].
RECURSIVE DigitsValue(_, _, _)
DigitsValue(s, i, j) ==
    IF i >= j THEN 0 ELSE DigitsValue(s, i, j - 1) * 10 + (s[j - 1] - ChZero)

RECURSIVE Pow10(_)
Pow10(k) == IF k = 0 THEN 1 ELSE 10 * Pow10(k - 1)

\* The largest decimal exponent of a finite float.
MaxFloatExp == 308

\* The float mant * 10^exp or mant / 10^exp as float() makes it: zero
\* beyond the smallest exponent, an infinity beyond the largest.
ScaledBy(mant, expNeg, exp) ==
    IF mant = Zero THEN Zero
    ELSE IF expNeg THEN
        (IF exp > MaxFloatExp + 16 THEN Zero
         ELSE RDiv(mant, Float(Pow10(exp))))
    ELSE IF exp > MaxFloatExp THEN [n |-> 1, d |-> 0]
    ELSE RMul(mant, Float(Pow10(exp)))

\* x or -x
Signed(sign, x) == [n |-> sign * x.n, d |-> x.d]

\* The number whose sign ends at i0 - 1, whose whole part is s[i0..i1-1],
\* whose fraction (if any) is s[i1+1..i2-1] and whose exponent (if any) is
\* s[e0..i3-1].
NumberAt(s, sign, i0, i1, i2, e0, i3) ==
    IF i1 = i0 THEN NoMatch
    ELSE IF i2 = i1 /\ i3 = i2
    THEN Match(PyInt(sign * DigitsValue(s, i0, i1)), i1)
    ELSE Match(PyFloat(Signed(sign,
             ScaledBy(IF i2 > i1
                      THEN Rat(DigitsValue(s, i0, i1) * Pow10(i2 - i1 - 1)
                                   + DigitsValue(s, i1 + 1, i2),
                               Pow10(i2 - i1 - 1))
                      ELSE Float(DigitsValue(s, i0, i1)),
                      i3 > i2 /\ s[e0 - 1] = ChMinus,
                      IF i3 > i2 THEN DigitsValue(s, e0, i3) ELSE 0))), i3)

\* The end of the exponent that may start at i2 with "e" or "E", a sign
\* at most and digits from e0 on; i2 when there is none.
ExponentEnd(s, i2, e0) ==
    IF i2 <= Len(s) /\ s[i2] \in {101, 69} /\ e0 <= Len(s) /\ IsDigit(s[e0])
    THEN SkipDigits(s, e0)
    ELSE i2

\* The first digit of the exponent that may start at i2.
ExponentStart(s, i2) ==
    IF i2 + 1 <= Len(s) /\ s[i2 + 1] \in {43, ChMinus} THEN i2 + 2 ELSE i2 + 1

\* The end of the fraction that may start at i1 with "." and a digit; i1
\* when there is none.
FractionEnd(s, i1) ==
    IF i1 + 1 <= Len(s) /\ s[i1] = ChDot /\ IsDigit(s[i1 + 1])
    THEN SkipDigits(s, i1 + 1)
    ELSE i1

\* The end of the whole part that starts at i0: "0" alone, or digits.
WholeEnd(s, i0) ==
    IF i0 <= Len(s) /\ s[i0] = ChZero THEN i0 + 1 ELSE SkipDigits(s, i0)

\* NUMBER_RE of json.scanner: -? (0|[1-9]\d*) (\.\d+)? ([eE][-+]?\d+)?;
\* an int without fraction and exponent, a float otherwise.
ParseNumber(s, i) ==
    LET Exponent(sign, i0, i1, i2, e0) ==
            NumberAt(s, sign, i0, i1, i2, e0, ExponentEnd(s, i2, e0))
        Fraction(sign, i0, i1, i2) ==
            Exponent(sign, i0, i1, i2, ExponentStart(s, i2))
        Whole(sign, i0, i1) == Fraction(sign, i0, i1, FractionEnd(s, i1))
        Digits0(sign, i0) == Whole(sign, i0, WholeEnd(s, i0))
    IN  IF i <= Len(s) /\ s[i] = ChMinus THEN Digits0(-1, i + 1)
        ELSE Digits0(1, i)

\* The value of a hexadecimal digit, or 16.
HexValue(c) ==
    IF IsDigit(c) THEN c - ChZero
    ELSE IF c >= 97 /\ c <= 102 THEN c - 87
    ELSE IF c >= 65 /\ c <= 70 THEN c - 55
    ELSE 16

\* py_scanstring (strict): a control character ends the parse with an
\* error; the escapes are \" \\ \/ \b \f \n \r \t and \uXXXX (the texts
\* here hold no surrogate pairs).
RECURSIVE ParseStringBody(_, _, _)
ParseStringBody(s, i, acc) ==
    IF i > Len(s) \/ s[i] < 32 THEN NoMatch
    ELSE IF s[i] = ChQuote THEN Match(acc, i + 1)
    ELSE IF s[i] = ChBackslash THEN
        (IF i + 1 > Len(s) THEN NoMatch
         ELSE IF s[i + 1] \in {ChQuote, ChBackslash, 47}
         THEN ParseStringBody(s, i + 2, Append(acc, s[i + 1]))
         ELSE IF s[i + 1] \in DOMAIN ShortEscapes
         THEN ParseStringBody(s, i + 2, Append(acc, ShortEscapes[s[i + 1]]))
         ELSE IF /\ s[i + 1] = 117
                 /\ i + 5 <= Len(s)
                 /\ \A k \in 2..5 : HexValue(s[i + k]) < 16
         THEN ParseStringBody(s, i + 6,
                  Append(acc, 4096 * HexValue(s[i + 2]) + 256 * HexValue(s[i + 3])
                              + 16 * HexValue(s[i + 4]) + HexValue(s[i + 5])))
         ELSE NoMatch)
    ELSE ParseStringBody(s, i + 1, Append(acc, s[i]))

ParseString(s, i) ==
    IF i <= Len(s) /\ s[i] = ChQuote THEN ParseStringBody(s, i + 1, <<>>)
    ELSE NoMatch

LiteralAt(s, i, text) ==
    i + Len(text) - 1 <= Len(s) /\ SubSeq(s, i, i + Len(text) - 1) = text

RECURSIVE ParseValue(_, _)
RECURSIVE ParseItems(_, _, _)
RECURSIVE ParseMembers(_, _, _)
ParseValue(s, i) ==
    IF i > Len(s) THEN NoMatch
    ELSE IF s[i] = ChQuote THEN
        LET str == ParseString(s, i)
        IN  IF str.ok THEN Match(PyStr(str.val), str.next) ELSE NoMatch
    ELSE IF s[i] = ChLBracket THEN
        LET j == SkipWs(s, i + 1)
        IN  IF j <= Len(s) /\ s[j] = ChRBracket THEN Match(PyList(<<>>), j + 1)
            ELSE ParseItems(s, j, <<>>)
    ELSE IF s[i] = ChLBrace THEN
        LET j == SkipWs(s, i + 1)
        IN  IF j <= Len(s) /\ s[j] = ChRBrace THEN Match(EmptyDict, j + 1)
            ELSE ParseMembers(s, j, EmptyDict.v)
    ELSE IF LiteralAt(s, i, TxtTrue) THEN Match(PyBool(TRUE), i + Len(TxtTrue))
    ELSE IF LiteralAt(s, i, TxtFalse) THEN Match(PyBool(FALSE), i + Len(TxtFalse))
    ELSE IF LiteralAt(s, i, TxtNull) THEN Match(PyNone, i + Len(TxtNull))
    ELSE IF LiteralAt(s, i, TxtNaN) THEN Match(PyNan, i + Len(TxtNaN))
    ELSE IF LiteralAt(s, i, TxtInfinity) THEN Match(PyInf, i + Len(TxtInfinity))
    ELSE IF LiteralAt(s, i, <<ChMinus>> \o TxtInfinity) THEN
        Match(PyFloat([n |-> -1, d |-> 0]), i + 1 + Len(TxtInfinity))
    ELSE ParseNumber(s, i)

\* The items of an array after "[": value ("," value)* "]"
ParseItems(s, i, acc) ==
    LET After(item, j) ==
            IF j > Len(s) THEN NoMatch
            ELSE IF s[j] = ChRBracket
            THEN Match(PyList(Append(acc, item.val)), j + 1)
            ELSE IF s[j] = ChComma
            THEN ParseItems(s, SkipWs(s, j + 1), Append(acc, item.val))
            ELSE NoMatch
        Item(item) == IF item.ok THEN After(item, SkipWs(s, item.next)) ELSE NoMatch
    IN  Item(ParseValue(s, i))

\* The members of an object after "{": string ":" value ("," ...)* "}".  A
\* repeated key keeps its last value.
ParseMembers(s, i, acc) ==
    LET Added(key, member) ==
            [k \in DOMAIN acc \cup {key.val} |->
                IF k = key.val THEN member.val ELSE acc[k]]
        After(key, member, j) ==
            IF j > Len(s) THEN NoMatch
            ELSE IF s[j] = ChRBrace THEN Match(PyDict(Added(key, member)), j + 1)
            ELSE IF s[j] = ChComma
            THEN ParseMembers(s, SkipWs(s, j + 1), Added(key, member))
            ELSE NoMatch
        Member(key, member) ==
            IF member.ok THEN After(key, member, SkipWs(s, member.next))
            ELSE NoMatch
        Colon(key, c) ==
            IF c > Len(s) \/ s[c] # ChColon THEN NoMatch
            ELSE Member(key, ParseValue(s, SkipWs(s, c + 1)))
        Key(key) == IF key.ok THEN Colon(key, SkipWs(s, key.next)) ELSE NoMatch
    IN  Key(ParseString(s, i))

\* json.loads(text): the value, or JSONDecodeError (a ValueError) when the
\* text is not one JSON value.
Loads(text) ==
    LET Whole(parsed) ==
            IF parsed.ok /\ SkipWs(text, parsed.next) = Len(text) + 1
            THEN Return(parsed.val)
            ELSE Raise("JSONDecodeError")
    IN  Whole(ParseValue(text, SkipWs(text, 1)))

\* str.encode("utf-8") / bytes.decode("utf-8") for code points below 2048
\* (one or two bytes each).
Utf8Encode(text) ==
    Concat([k \in 1..Len(text) |->
               IF text[k] < 128 THEN <<text[k]>>
               ELSE <<192 + (text[k] \div 64), 128 + (text[k] % 64)>>])

\* A byte that starts a two-byte character, and a byte that continues one.
IsLead(byte) == byte >= 194 /\ byte <= 223

IsContinuation(byte) == byte >= 128 /\ byte <= 191

\* The text, or UnicodeDecodeError unless every byte is an ASCII one, a
\* lead followed by a continuation, or a continuation after a lead.
Utf8Decode(bytes) ==
    IF \A k \in 1..Len(bytes) :
           \/ bytes[k] < 128
           \/ IsLead(bytes[k]) /\ k < Len(bytes) /\ IsContinuation(bytes[k + 1])
           \/ IsContinuation(bytes[k]) /\ k > 1 /\ IsLead(bytes[k - 1])
    THEN Return(Concat([k \in 1..Len(bytes) |->
                           IF bytes[k] < 128 THEN <<bytes[k]>>
                           ELSE IF IsLead(bytes[k])
                           THEN <<(bytes[k] - 192) * 64 + (bytes[k + 1] - 128)>>
                           ELSE <<>>]))
    ELSE Raise("UnicodeDecodeError")

\* The character of a six-bit value in the URL-safe base64 alphabet
\* (A-Z, a-z, 0-9, '-', '_').
B64Char(v) ==
    IF v < 26 THEN 65 + v
    ELSE IF v < 52 THEN 97 + (v - 26)
    ELSE IF v < 62 THEN ChZero + (v - 52)
    ELSE IF v = 62 THEN ChMinus
    ELSE 95

\* The six-bit value of a character for urlsafe_b64decode, which reads '-'
\* and '_' as '+' and '/' and still knows '+' and '/'; 64 for any other
\* character.
B64Value(c) ==
    IF c >= 65 /\ c <= 90 THEN c - 65
    ELSE IF c >= 97 /\ c <= 122 THEN c - 97 + 26
    ELSE IF IsDigit(c) THEN c - ChZero + 52
    ELSE IF c \in {ChMinus, 43} THEN 62
    ELSE IF c \in {95, 47} THEN 63
    ELSE 64

\* base64.urlsafe_b64encode(data): four characters per three bytes, the last
\* group padded with '='.
B64Group(data) ==
    IF Len(data) = 1 THEN
        <<B64Char(data[1] \div 4), B64Char((data[1] % 4) * 16), ChEquals, ChEquals>>
    ELSE IF Len(data) = 2 THEN
        <<B64Char(data[1] \div 4),
          B64Char((data[1] % 4) * 16 + (data[2] \div 16)),
          B64Char((data[2] % 16) * 4), ChEquals>>
    ELSE <<B64Char(data[1] \div 4),
           B64Char((data[1] % 4) * 16 + (data[2] \div 16)),
           B64Char((data[2] % 16) * 4 + (data[3] \div 64)),
           B64Char(data[3] % 64)>>

B64Encode(data) ==
    Concat([g \in 1..((Len(data) + 2) \div 3) |->
               B64Group(SubSeq(data, 3 * g - 2,
                               IF 3 * g <= Len(data) THEN 3 * g ELSE Len(data)))])

\* str.rstrip("=")
RECURSIVE RStripEquals(_)
RStripEquals(s) ==
    IF s # <<>> /\ s[Len(s)] = ChEquals
    THEN RStripEquals(SubSeq(s, 1, Len(s) - 1))
    ELSE s

\* _b64url_encode
b64url_encode(data) == RStripEquals(B64Encode(data))

\* binascii.a2b_base64 in its default, non-strict mode: characters outside
\* the alphabet are skipped, a completed padding ends the input, and input
\* that ends inside a group of four raises binascii.Error.
\*
\* quad_pos when s[i] is read: the characters of the alphabet before it,
\* modulo 4.
QuadPos(s, i) == Cardinality({k \in 1..(i - 1) : B64Value(s[k]) # 64}) % 4

\* pads when s[i] is read: the '=' since the last character of the
\* alphabet, which count once half a group has been read.
Pads(s, i) ==
    IF QuadPos(s, i) < 2 THEN 0
    ELSE Cardinality({k \in 1..(i - 1) :
                         /\ s[k] = ChEquals
                         /\ \A j \in (k + 1)..(i - 1) : B64Value(s[j]) = 64})

\* s[i] is the '=' that completes the padding.
EndsInput(s, i) ==
    s[i] = ChEquals /\ QuadPos(s, i) >= 2 /\ QuadPos(s, i) + Pads(s, i) + 1 >= 4

\* The bytes of the six-bit values vals: three for every four values, and
\* one or two for the two or three values of a last group.
B64Bytes(vals) ==
    [m \in 1..(3 * (Len(vals) \div 4)
               + (IF Len(vals) % 4 >= 2 THEN (Len(vals) % 4) - 1 ELSE 0)) |->
        CASE (m - 1) % 3 = 0 ->
                vals[4 * ((m - 1) \div 3) + 1] * 4
                + (vals[4 * ((m - 1) \div 3) + 2] \div 16)
          [] (m - 1) % 3 = 1 ->
                (vals[4 * ((m - 1) \div 3) + 2] % 16) * 16
                + (vals[4 * ((m - 1) \div 3) + 3] \div 4)
          [] (m - 1) % 3 = 2 ->
                (vals[4 * ((m - 1) \div 3) + 3] % 4) * 64
                + vals[4 * ((m - 1) \div 3) + 4]]

A2bBase64(s) ==
    LET Values(chars) == [k \in 1..Len(chars) |-> B64Value(chars[k])]
        Read(stop) ==
            Values(SelectSeq(SubSeq(s, 1, stop - 1), LAMBDA c : B64Value(c) # 64))
        Done(vals, ended) ==
            IF ended \/ Len(vals) % 4 = 0 THEN Return(B64Bytes(vals))
            ELSE Raise("binascii.Error")
    IN  IF \E i \in 1..Len(s) : EndsInput(s, i)
        THEN Done(Read(CHOOSE i \in 1..Len(s) :
                           EndsInput(s, i) /\ \A j \in 1..(i - 1) : ~EndsInput(s, j)),
                  TRUE)
        ELSE Done(Read(Len(s) + 1), FALSE)

\* _b64url_decode adding no padding.
Padding_None(s) == <<>>

\* "=" * (-len(s) % 4)
Padding(s) == [k \in 1..((4 - (Len(s) % 4)) % 4) |-> ChEquals]

\* _b64url_decode: pad to a multiple of four, encode as ASCII (which fails
\* on any other character), decode.
b64url_decode(s) ==
    IF \E k \in 1..Len(s) : s[k] > 127 THEN Raise("UnicodeEncodeError")
    ELSE A2bBase64(s \o Padding(s))

\* zlib.adler32 of the data, as its two 16-bit halves <<b, a>>: a is 1
\* plus the sum of the bytes, b the sum of the values a takes byte after
\* byte, both modulo 65521.
AdlerMod == 65521

Adler32(data) ==
    <<(Len(data) + Sum([k \in 1..Len(data) |-> (Len(data) - k + 1) * data[k]],
                       1, Len(data))) % AdlerMod,
      (1 + Sum(data, 1, Len(data))) % AdlerMod>>

\* zlib.compress(data, level=9) and zlib.decompress(blob).  The deflate
\* coding itself is not modelled: a stream is the two-byte zlib header, the
\* data, and the big-endian Adler-32 of the data, and decompress raises
\* zlib.error unless header and checksum are right.
ZlibHeader == <<120, 218>>

zlib_compress(data) ==
    LET sum == Adler32(data)
    IN  ZlibHeader \o data
        \o <<sum[1] \div 256, sum[1] % 256, sum[2] \div 256, sum[2] % 256>>

zlib_decompress(blob) ==
    LET n == Len(blob)
        data == SubSeq(blob, 3, n - 4)
        sum == Adler32(data)
    IN  IF /\ n >= 6
           /\ SubSeq(blob, 1, 2) = ZlibHeader
           /\ SubSeq(blob, n - 3, n)
                = <<sum[1] \div 256, sum[1] % 256, sum[2] \div 256, sum[2] % 256>>
        THEN Return(data)
        ELSE Raise("zlib.error")

\* binascii.crc32: the reflected CRC-32 (polynomial 0xEDB88320), table
\* driven as in zlib, on a 32-bit register held as its two 16-bit halves
\* <<hi, lo>>.
CrcPolyHi == 60856

CrcPolyLo == 33568

Ones16 == 65535

RECURSIVE Xor16(_, _)
Xor16(a, b) ==
    IF a = 0 THEN b
    ELSE IF b = 0 THEN a
    ELSE ((a + b) % 2) + 2 * Xor16(a \div 2, b \div 2)

\* One shift: the register moves one bit down and the polynomial is folded
\* in when the bit shifted out is set.
CrcShift(x) ==
    LET hi == x[1] \div 2
        lo == (x[2] \div 2) + 32768 * (x[1] % 2)
    IN  IF x[2] % 2 = 1 THEN <<Xor16(hi, CrcPolyHi), Xor16(lo, CrcPolyLo)>>
        ELSE <<hi, lo>>

\* crc_table[b]: eight shifts of the byte b.
CrcTable(b) ==
    CrcShift(CrcShift(CrcShift(CrcShift(
        CrcShift(CrcShift(CrcShift(CrcShift(<<0, b>>))))))))

\* crc = crc_table[(crc ^ byte) & 0xFF] ^ (crc >> 8)
CrcByte(x, byte) ==
    LET Folded(entry) ==
            <<Xor16(x[1] \div 256, entry[1]),
              Xor16((x[2] \div 256) + 256 * (x[1] % 256), entry[2])>>
    IN  Folded(CrcTable(Xor16(x[2] % 256, byte)))

\* The register x after the bytes data[lo..hi] (by halves, the register
\* after the first half being a value when the second half starts).
RECURSIVE CrcBytes(_, _, _, _)
CrcBytes(x, data, lo, hi) ==
    IF lo > hi THEN x
    ELSE IF lo = hi THEN CrcByte(x, data[lo])
    ELSE Only({CrcBytes(r, data, ((lo + hi) \div 2) + 1, hi) :
                  r \in {CrcBytes(x, data, lo, (lo + hi) \div 2)}})

crc32(data) ==
    LET Complement(x) == <<Ones16 - x[1], Ones16 - x[2]>>
    IN  Complement(CrcBytes(<<Ones16, Ones16>>, data, 1, Len(data)))

\* f"{crc & 0xFFFFFFFF:08x}": eight lower-case hexadecimal digits.
CrcHex(crc) == Hex4(crc[1]) \o Hex4(crc[2])

\* str.lower() on ASCII text
Lower(s) == [k \in 1..Len(s) |-> IF s[k] >= 65 /\ s[k] <= 90 THEN s[k] + 32 ELSE s[k]]

\* "cc1", "cc2", "null", "None"
SCHEME_V1 == <<99, 99, 49>>

SCHEME_V2 == <<99, 99, 50>>

TxtNone == <<78, 111, 110, 101>>

\* encode_config(params, compress=...)
encode_config(params, compress) ==
    LET json_bytes == Utf8Encode(Dumps(params))
    IN  IF compress
        THEN SCHEME_V2 \o <<ChDot>> \o CrcHex(crc32(json_bytes)) \o <<ChDot>>
             \o b64url_encode(zlib_compress(json_bytes))
        ELSE SCHEME_V1 \o <<ChDot>> \o b64url_encode(json_bytes)

\* The position of the first "." of s at or after i, or 0.
FindDot(s, i) ==
    IF \E k \in i..Len(s) : s[k] = ChDot
    THEN CHOOSE k \in i..Len(s) : s[k] = ChDot /\ \A j \in i..(k - 1) : s[j] # ChDot
    ELSE 0

\* s.split(".", maxsplit)
RECURSIVE Split(_, _)
Split(s, maxsplit) ==
    LET dot == FindDot(s, 1)
    IN  IF maxsplit = 0 \/ dot = 0 THEN <<s>>
        ELSE <<SubSeq(s, 1, dot - 1)>>
             \o Split(SubSeq(s, dot + 1, Len(s)), maxsplit - 1)

\* The bytes of a payload as a JSON object: the dict, or the error of the
\* step that failed.
LoadsDict(json_bytes) ==
    LET AsDict(data) ==
            IF data.exc # "none" THEN data
            ELSE IF data.val.t # "dict" THEN Raise("ValueError")
            ELSE data
        Decoded(text) == IF text.exc # "none" THEN text ELSE AsDict(Loads(text.val))
    IN  Decoded(Utf8Decode(json_bytes))

InvalidString == [exc |-> "ValueError", msg |-> "Invalid encoded configuration string."]

\* _try_decode_v2(s): the pair (data, ok) as a record, or ValueError.
try_decode_v2(s) ==
    LET Loaded(data) ==
            IF data.exc # "none" THEN InvalidString
            ELSE [exc |-> "none", val |-> data.val, ok |-> TRUE]
        Checked(crc_hex, json_bytes) ==
            IF json_bytes.exc # "none" THEN InvalidString
            ELSE IF Lower(crc_hex) # CrcHex(crc32(json_bytes.val)) THEN InvalidString
            ELSE Loaded(LoadsDict(json_bytes.val))
        Decompressed(crc_hex, blob) ==
            IF blob.exc # "none" THEN InvalidString
            ELSE Checked(crc_hex, zlib_decompress(blob.val))
        Parts(parts) ==
            IF Len(parts) # 3 \/ parts[1] # SCHEME_V2
            THEN [exc |-> "none", val |-> EmptyDict, ok |-> FALSE]
            ELSE Decompressed(parts[2], b64url_decode(parts[3]))
    IN  Parts(Split(s, 2))

\* _try_decode_v1_or_legacy(s)
try_decode_v1_or_legacy(s) ==
    LET Loaded(data) == IF data.exc # "none" THEN InvalidString ELSE Return(data.val)
        Decoded(json_bytes) ==
            IF json_bytes.exc # "none" THEN InvalidString
            ELSE Loaded(LoadsDict(json_bytes.val))
    IN  Decoded(b64url_decode(IF StartsWith(s, SCHEME_V1 \o <<ChDot>>)
                              THEN Split(s, 1)[2] ELSE s))

\* decode_config(encoded)
decode_config(encoded) ==
    LET Data(decoded) == IF decoded.exc # "none" THEN decoded ELSE Return(decoded.val)
    IN  IF encoded = <<>> \/ encoded \in {TxtNull, TxtNone} THEN Return(EmptyDict)
        ELSE IF StartsWith(encoded, SCHEME_V2 \o <<ChDot>>)
        THEN Data(try_decode_v2(encoded))
        ELSE try_decode_v1_or_legacy(encoded)

(***************************************************************************)
(* SpecCodec: encode_config and decode_config applied to configurations    *)
(* and to texts.  inp is either [p |-> dict], a configuration that is      *)
(* encoded (compressed or not) and decoded again, or [s |-> text], a text  *)
(* handed to decode_config.                                                *)
(***************************************************************************)
\* "a", "b", "z", "Gb", a text with a quote and a backslash
KeyA == <<97>>

KeyB == <<98>>

KeyZ == <<122>>

TxtGb == <<71, 98>>

TxtQuoted == <<113, 34, 92>>

\* The values of the configurations, and the configurations: the empty
\* one, every {"a": v} and every {"a": v, "b": w}.  (Sequences, not sets:
\* values of different types are never compared with each other.)
CodecValues ==
    <<PyInt(1), PyInt(-30), PyFloat(Rat(5, 2)), PyStr(TxtGb), PyStr(TxtQuoted),
      PyBool(TRUE), PyNone, PyList(<<PyInt(1), PyNone>>),
      PyTuple(<<PyInt(1), PyInt(2)>>), PyNan, PyInf,
      PyDict(KeyZ :> PyInt(-3))>>

NumValues == Len(CodecValues)

CodecDicts ==
    [i \in 0..(NumValues + NumValues * NumValues) |->
        IF i = 0 THEN EmptyDict
        ELSE IF i <= NumValues THEN PyDict(KeyA :> CodecValues[i])
        ELSE PyDict((KeyA :> CodecValues[((i - NumValues - 1) \div NumValues) + 1])
                    @@ (KeyB :> CodecValues[((i - NumValues - 1) % NumValues) + 1]))]

\* {"a": 1}, its cc2 and cc1 encodings, and the fields of the cc2 one
SampleDict == PyDict(KeyA :> PyInt(1))

SampleV2 == encode_config(SampleDict, TRUE)

SampleV1 == encode_config(SampleDict, FALSE)

SampleCrc == Split(SampleV2, 2)[2]

SampleBlob == Split(SampleV2, 2)[3]

\* upper() of a lower-case hexadecimal text
UpperHex(s) == [k \in 1..Len(s) |-> IF s[k] >= 97 THEN s[k] - 32 ELSE s[k]]

\* Texts built around the valid encodings: the encodings themselves, the
\* legacy payload, the cc2 string with an upper-case checksum, with a wrong
\* checksum, without its payload, without payload and checksum, with an
\* empty payload, cut short by one character, with a further field, and
\* the cc1 string cut short and with a further field.
DerivedTexts ==
    {SampleV2, SampleV1, SubSeq(SampleV1, 5, Len(SampleV1)),
     SCHEME_V2 \o <<ChDot>> \o UpperHex(SampleCrc) \o <<ChDot>> \o SampleBlob,
     SCHEME_V2 \o <<ChDot, 48, 48, 48, 48, 48, 48, 48, 48, ChDot>> \o SampleBlob,
     SCHEME_V2 \o <<ChDot>> \o SampleCrc,
     SCHEME_V2 \o <<ChDot>> \o SampleCrc \o <<ChDot>>,
     SCHEME_V2 \o <<ChDot>> \o SampleBlob,
     SubSeq(SampleV2, 1, Len(SampleV2) - 1),
     SampleV2 \o <<ChDot, 120>>,
     SubSeq(SampleV1, 1, Len(SampleV1) - 1),
     SampleV1 \o <<ChDot, 120>>,
     SCHEME_V1 \o <<ChDot>> \o SampleV2}

\* "", "null", "None", "cc2.abc", "cc2.", "cc2", "cc2..", "cc1.", "cc1",
\* "cc1.e30", "e30", "e30!", "e30=", "e3", "WzFd" ([1]), "MQ" (1),
\* "bnVsbA" (null), "cc3.e30", " e30", "CC1.e30", "Null", "abc", "{}",
\* "eyJhIjoxZTk5OX0" ({"a":1e999}), "eyJhIjpOYU59" ({"a":NaN}),
\* "eyJhIjoxLCJhIjoyfQ" ({"a":1,"a":2}), "eyJhIjowMX0" ({"a":01})
CraftedTexts ==
    {<<>>, TxtNull, TxtNone,
     <<99, 99, 50, 46, 97, 98, 99>>, <<99, 99, 50, 46>>, <<99, 99, 50>>,
     <<99, 99, 50, 46, 46>>, <<99, 99, 49, 46>>, <<99, 99, 49>>,
     <<99, 99, 49, 46, 101, 51, 48>>, <<101, 51, 48>>, <<101, 51, 48, 33>>,
     <<101, 51, 48, 61>>, <<101, 51>>, <<87, 122, 70, 100>>, <<77, 81>>,
     <<98, 110, 86, 115, 98, 65>>, <<99, 99, 51, 46, 101, 51, 48>>,
     <<32, 101, 51, 48>>, <<67, 67, 49, 46, 101, 51, 48>>,
     <<78, 117, 108, 108>>, <<97, 98, 99>>, <<123, 125>>,
     <<101, 121, 74, 104, 73, 106, 111, 120, 90, 84, 107, 53, 79, 88, 48>>,
     <<101, 121, 74, 104, 73, 106, 112, 79, 89, 85, 53, 57>>,
     <<101, 121, 74, 104, 73, 106, 111, 120, 76, 67, 74, 104, 73, 106, 111, 121,
       102, 81>>,
     <<101, 121, 74, 104, 73, 106, 111, 119, 77, 88, 48>>}

CodecTexts == DerivedTexts \cup CraftedTexts

InitCodec ==
    /\ pc = "args"
    /\ \/ \E i \in DOMAIN CodecDicts : inp = [p |-> CodecDicts[i]]
       \/ \E s \in CodecTexts : inp = [s |-> s]
    /\ stages = Unset
    /\ calc = Unset
    /\ result = Unset

\* encoded = encode_config(p, compress=...)
CodecEncode ==
    /\ pc = "args"
    /\ "p" \in DOMAIN inp
    /\ \E compress \in BOOLEAN :
           result' = [op |-> "encode_config", compress |-> compress,
                      out |-> encode_config(inp.p, compress)]
    /\ pc' = "encoded"
    /\ UNCHANGED <<inp, stages, calc>>

\* decode_config(encoded)
CodecDecode ==
    /\ pc = "encoded"
    /\ result' = [op |-> "decode_config", compress |-> result.compress,
                  encoded |-> result.out, out |-> decode_config(result.out)]
    /\ pc' = "decoded"
    /\ UNCHANGED <<inp, stages, calc>>

\* decode_config of the cc1 string without its "cc1." prefix
CodecDecodeLegacy ==
    /\ pc = "encoded"
    /\ ~result.compress
    /\ LET payload == SubSeq(result.out, 5, Len(result.out))
       IN  result' = [op |-> "decode_config", compress |-> FALSE,
                      encoded |-> payload, out |-> decode_config(payload)]
    /\ pc' = "decoded_legacy"
    /\ UNCHANGED <<inp, stages, calc>>

\* decode_config(s)
CodecDecodeText ==
    /\ pc = "args"
    /\ "s" \in DOMAIN inp
    /\ result' = [op |-> "decode_config", encoded |-> inp.s,
                  out |-> decode_config(inp.s)]
    /\ pc' = "decoded_text"
    /\ UNCHANGED <<inp, stages, calc>>

NextCodec ==
    \/ CodecEncode
    \/ CodecDecode
    \/ CodecDecodeLegacy
    \/ CodecDecodeText

SpecCodec == InitCodec /\ [][NextCodec]_vars

(***************************************************************************)
(* unit_parser.py: parse_region_size on texts.  A float is a decimal       *)
(* [m |-> mantissa, e |-> exponent of ten], m * 10^e with m not a multiple *)
(* of ten (0 is [m |-> 0, e |-> 0]), or inf, -inf or nan; the int returned *)
(* is a decimal with e >= 0, so that sizes beyond 32 bits are kept.        *)
(***************************************************************************)
RECURSIVE Dec(_, _)
Dec(m, e) ==
    IF m = 0 THEN [m |-> 0, e |-> 0]
    ELSE IF m % 10 = 0 THEN Dec(m \div 10, e + 1)
    ELSE [m |-> m, e |-> e]

DecInf == [inf |-> 1]

DecNegInf == [inf |-> -1]

DecNan == [nan |-> TRUE]

IsFinite(x) == "m" \in DOMAIN x

\* The number of decimal digits of n >= 0.
NumDigits(n) == Len(Digits(n))

\* A float from an exact decimal: past the largest exponent of a double it
\* is an infinity.
DecFloat(m, e) ==
    LET x == Dec(m, e)
    IN  IF x.m # 0 /\ x.e + NumDigits(Abs(x.m)) - 1 > MaxFloatExp
        THEN (IF x.m > 0 THEN DecInf ELSE DecNegInf)
        ELSE x

\* value * factor
DecMul(x, factor) ==
    IF IsFinite(x)
    THEN LET f == Dec(factor, 0) IN DecFloat(x.m * f.m, x.e + f.e)
    ELSE x

\* int(x): truncation towards zero; OverflowError for an infinity and
\* ValueError for nan.
DecInt(x) ==
    IF "inf" \in DOMAIN x THEN Raise("OverflowError")
    ELSE IF "nan" \in DOMAIN x THEN Raise("ValueError")
    ELSE IF x.e >= 0 THEN Return(x)
    ELSE IF -x.e > 9 THEN Return(Dec(0, 0))
    ELSE Return(Dec((IF x.m >= 0 THEN 1 ELSE -1) * (Abs(x.m) \div Pow10(-x.e)), 0))

\* The characters str.strip() removes (the ASCII ones).
Whitespace == {9, 10, 11, 12, 13, 32}

RECURSIVE LStrip(_)
LStrip(s) == IF s # <<>> /\ Head(s) \in Whitespace THEN LStrip(Tail(s)) ELSE s

RECURSIVE RStrip(_)
RStrip(s) ==
    IF s # <<>> /\ s[Len(s)] \in Whitespace
    THEN RStrip(SubSeq(s, 1, Len(s) - 1))
    ELSE s

Strip(s) == LStrip(RStrip(s))

\* s.replace(" ", "")
RemoveSpaces(s) == SelectSeq(s, LAMBDA c : c # 32)

EndsWith(s, suffix) ==
    Len(suffix) <= Len(s) /\ SubSeq(s, Len(s) - Len(suffix) + 1, Len(s)) = suffix

\* "inf", "infinity", "nan"
TxtInf == <<105, 110, 102>>

TxtInfinityLower == <<105, 110, 102, 105, 110, 105, 116, 121>>

TxtNanLower == <<110, 97, 110>>

\* float(text) for a lower-case text: white space around it is dropped;
\* then a sign, and inf, infinity, nan, or digits with an optional point
\* and an optional exponent (ASCII digits without underscores).  Anything
\* else is a ValueError.
float_of(text) ==
    LET s == Strip(text)
        signed == s # <<>> /\ s[1] \in {43, ChMinus}
        sign == IF signed /\ s[1] = ChMinus THEN -1 ELSE 1
        i0 == IF signed THEN 2 ELSE 1
        body == SubSeq(s, i0, Len(s))
        i1 == SkipDigits(s, i0)
        hasPoint == i1 <= Len(s) /\ s[i1] = ChDot
        i2 == IF hasPoint THEN SkipDigits(s, i1 + 1) ELSE i1
        intDigits == i1 - i0
        fracDigits == IF hasPoint THEN i2 - (i1 + 1) ELSE 0
        hasExp == i2 <= Len(s) /\ s[i2] = 101
        expSigned == hasExp /\ i2 + 1 <= Len(s) /\ s[i2 + 1] \in {43, ChMinus}
        expSign == IF expSigned /\ s[i2 + 1] = ChMinus THEN -1 ELSE 1
        j0 == IF expSigned THEN i2 + 2 ELSE i2 + 1
        j1 == IF hasExp THEN SkipDigits(s, j0) ELSE i2
        exponent == IF hasExp THEN expSign * DigitsValue(s, j0, j1) ELSE 0
        mantissa == DigitsValue(s, i0, i1) * Pow10(fracDigits)
                    + (IF hasPoint THEN DigitsValue(s, i1 + 1, i2) ELSE 0)
    IN  IF body \in {TxtInf, TxtInfinityLower}
        THEN Return(IF sign = 1 THEN DecInf ELSE DecNegInf)
        ELSE IF body = TxtNanLower THEN Return(DecNan)
        ELSE IF \/ intDigits + fracDigits = 0
                \/ (hasExp /\ j1 = j0)
                \/ j1 # Len(s) + 1
        THEN Raise("ValueError")
        ELSE Return(DecFloat(sign * mantissa, exponent - fracDigits))

\* suffix_map, in its order: gb, g, mb, m, kb, k, bp, b
suffix_map ==
    <<[suffix |-> <<103, 98>>, factor |-> 1000000000],
      [suffix |-> <<103>>, factor |-> 1000000000],
      [suffix |-> <<109, 98>>, factor |-> 1000000],
      [suffix |-> <<109>>, factor |-> 1000000],
      [suffix |-> <<107, 98>>, factor |-> 1000],
      [suffix |-> <<107>>, factor |-> 1000],
      [suffix |-> <<98, 112>>, factor |-> 1],
      [suffix |-> <<98>>, factor |-> 1]>>

\* parse_region_size(input_str) for a text
parse_region_size(input_str) ==
    LET s == Lower(RemoveSpaces(Strip(input_str)))
        matching == {k \in DOMAIN suffix_map : EndsWith(s, suffix_map[k].suffix)}
        first == CHOOSE k \in matching : \A other \in matching : k <= other
        num_str == IF matching = {} THEN s
                   ELSE SubSeq(s, 1, Len(s) - Len(suffix_map[first].suffix))
        factor == IF matching = {} THEN 1 ELSE suffix_map[first].factor
        value == float_of(num_str)
    IN  IF input_str = <<>> THEN Raise("ValueError")
        ELSE IF value.exc # "none" THEN Raise("ValueError")
        ELSE DecInt(DecMul(value.val, factor))

(***************************************************************************)
(* SpecParse: parse_region_size applied to a text made of a number, a gap  *)
(* of spaces and a unit.                                                   *)
(***************************************************************************)
\* "500", "3.3", "1e6", "1.5e9", "1500", "1.2", ".5", "5.", "-5", "+1e+2",
\* "1e-3", "0", "12.5e-1", "1e999", "inf", "nan", "", "x", "1,5", "1e",
\* "0x10", "5 0", "1\t0", "2.50"
RegionNumbers ==
    {<<53, 48, 48>>, <<51, 46, 51>>, <<49, 101, 54>>, <<49, 46, 53, 101, 57>>,
     <<49, 53, 48, 48>>, <<49, 46, 50>>, <<46, 53>>, <<53, 46>>, <<45, 53>>,
     <<43, 49, 101, 43, 50>>, <<49, 101, 45, 51>>, <<48>>,
     <<49, 50, 46, 53, 101, 45, 49>>, <<49, 101, 57, 57, 57>>,
     <<105, 110, 102>>, <<110, 97, 110>>, <<>>, <<120>>, <<49, 44, 53>>,
     <<49, 101>>, <<48, 120, 49, 48>>, <<53, 32, 48>>, <<49, 9, 48>>,
     <<50, 46, 53, 48>>}

\* "", "Gb", "G", "Mb", "M", "Kb", "K", "bp", "b", "GB", "kB", "mb", "BP",
\* "Kbp", "Mbp", "Gbp", "kbp", "x", "bb", "T"
RegionUnits ==
    {<<>>, <<71, 98>>, <<71>>, <<77, 98>>, <<77>>, <<75, 98>>, <<75>>,
     <<98, 112>>, <<98>>, <<71, 66>>, <<107, 66>>, <<109, 98>>, <<66, 80>>,
     <<75, 98, 112>>, <<77, 98, 112>>, <<71, 98, 112>>, <<107, 98, 112>>,
     <<120>>, <<98, 98>>, <<84>>}

\* "", " ", "  "
RegionGaps == {<<>>, <<32>>, <<32, 32>>}

RegionText(w) == w.number \o w.gap \o w.unit

InitParse ==
    /\ pc = "args"
    /\ inp \in [number : RegionNumbers, gap : RegionGaps, unit : RegionUnits]
    /\ stages = Unset
    /\ calc = Unset
    /\ result = Unset

ParseRegionSize ==
    /\ pc = "args"
    /\ result' = [op |-> "parse_region_size", text |-> RegionText(inp),
                  out |-> parse_region_size(RegionText(inp))]
    /\ pc' = IF result'.out.exc = "none" THEN "parsed" ELSE "raised"
    /\ UNCHANGED <<inp, stages, calc>>

NextParse == ParseRegionSize

SpecParse == InitParse /\ [][NextParse]_vars

(***************************************************************************)
(* effective_output.py in double precision, for outputs of a few base      *)
(* pairs against a large region.  There the quotient x = o2 / rsize is     *)
(* below 2^-25, math.exp(-x) is a double just below 1 (those are the       *)
(* multiples of 2^-53), and 1.0 - math.exp(-x) is exactly k * 2^-53 for a  *)
(* whole k.  All quantities below are whole numbers of 2^-53.              *)
(***************************************************************************)
MantissaBits == 53

MaxTinyOutput == 4

\* 2^53 * r0 / rsize as a quotient q and a remainder r, bit by bit.
RECURSIVE Scale53(_, _, _, _)
Scale53(q, r, rsize, bits) ==
    IF bits = 0 THEN [q |-> q, r |-> r]
    ELSE IF 2 * r >= rsize THEN Scale53(2 * q + 1, 2 * r - rsize, rsize, bits - 1)
    ELSE Scale53(2 * q, 2 * r, rsize, bits - 1)

\* 1.0 - math.exp(-o2 / rsize) as the set of k it can be, in units of
\* 2^-53.  With 2^53 * o2 / rsize = q + r / rsize, the exact value is
\* q + (2r - q * o2) / (2 rsize) up to `slack` (the rounding of the quotient
\* and the terms of the series after the second); math.exp returns the
\* nearest double, so k is the nearest whole number, either neighbour when
\* the value is within the slack of a half.
OneMinusExpUlps(o2, rsize) ==
    LET x == Scale53(0, o2, rsize, MantissaBits)
        twice == 2 * x.r - x.q * o2
        slack == 3 * o2 + 2
    IN  {x.q + ((twice - slack + rsize) \div (2 * rsize)),
         x.q + ((twice + slack + rsize) \div (2 * rsize))}

\* The largest power of two not above n >= 1.
RECURSIVE BinadeFloor(_)
BinadeFloor(n) == IF n < 2 THEN 1 ELSE 2 * BinadeFloor(n \div 2)

\* The multiple of step nearest to e, the even multiple on a tie.
RoundTiesEven(e, step) ==
    LET n == e \div step
        rest == e - n * step
    IN  IF 2 * rest > step \/ (2 * rest = step /\ n % 2 = 1)
        THEN (n + 1) * step
        ELSE n * step

\* o3 - o2 in units of 2^-53, for o3 = rsize * (k * 2^-53) rounded to a
\* double: the exact product is o2 + ((k - q) * rsize - r) * 2^-53, and the
\* doubles around o2 are 2 * BinadeFloor(o2) units apart (half that below a
\* power of two).
ComplexityExcess(o2, rsize, k) ==
    LET x == Scale53(0, o2, rsize, MantissaBits)
        exact == (k - x.q) * rsize - x.r
        binade == BinadeFloor(o2)
        step == IF exact < 0 /\ o2 = binade THEN binade ELSE 2 * binade
    IN  RoundTiesEven(exact, step)

\* Regions of 2 * 10^8 .. 6 * 10^8 base pairs
TinyRegions == {100000000 * j + 1234567 * i : j \in 2..6, i \in 0..5}

TinyArgs ==
    [base_output_bp : 1..MaxTinyOutput, region_size_bp : TinyRegions,
     apply_complexity : BOOLEAN, apply_gc_bias : BOOLEAN]

InitTiny ==
    /\ pc = "args"
    /\ inp \in TinyArgs
    /\ stages = Unset
    /\ calc = Unset
    /\ result = Unset

\* compute_effective_output(base_output_bp = a few bp, read_filter_loss_pct
\* = 0, apply_fragment_model = False, gc_bias_pct = 0, ...): o0 = o1 = o2 =
\* base_output_bp exactly (the factors are 1.0), o3 from the complexity
\* formula, o4 = o3 * 1.0 or o3.  A stage is [bp, ulps], the double
\* bp + ulps * 2^-53.
TinyStages ==
    /\ pc = "args"
    /\ \E k \in OneMinusExpUlps(inp.base_output_bp, inp.region_size_bp) :
           LET o2 == [bp |-> inp.base_output_bp, ulps |-> 0]
               o3 == IF inp.apply_complexity
                     THEN [bp |-> inp.base_output_bp,
                           ulps |-> ComplexityExcess(inp.base_output_bp,
                                                     inp.region_size_bp, k)]
                     ELSE o2
           IN  stages' = [o0 |-> o2, o1 |-> o2, o2 |-> o2, o3 |-> o3, o4 |-> o3,
                          rsize |-> inp.region_size_bp]
    /\ pc' = "returned"
    /\ UNCHANGED <<inp, calc, result>>

NextTiny == TinyStages

SpecTiny == InitTiny /\ [][NextTiny]_vars

(***************************************************************************)
(* query_state.py: the 22 keys of the persisted configuration, their       *)
(* defaults, and the state in the URL.                                     *)
(***************************************************************************)
\* "coverage_mode"
KeyCoverageMode ==
    <<99, 111, 118, 101, 114, 97, 103, 101, 95, 109, 111, 100, 101>>

\* "variable"
KeyVariable == <<118, 97, 114, 105, 97, 98, 108, 101>>

\* "preset"
KeyPreset == <<112, 114, 101, 115, 101, 116>>

\* "region_input"
KeyRegionInput ==
    <<114, 101, 103, 105, 111, 110, 95, 105, 110, 112, 117, 116>>

\* "depth"
KeyDepth == <<100, 101, 112, 116, 104>>

\* "samples"
KeySamples == <<115, 97, 109, 112, 108, 101, 115>>

\* "duplication"
KeyDuplication == <<100, 117, 112, 108, 105, 99, 97, 116, 105, 111, 110>>

\* "on_target"
KeyOnTarget == <<111, 110, 95, 116, 97, 114, 103, 101, 116>>

\* "platform"
KeyPlatform == <<112, 108, 97, 116, 102, 111, 114, 109>>

\* "runtime_hr"
KeyRuntimeHr == <<114, 117, 110, 116, 105, 109, 101, 95, 104, 114>>

\* "apply_complexity"
KeyApplyComplexity ==
    <<97, 112, 112, 108, 121, 95, 99, 111, 109, 112, 108, 101, 120, 105,
      116, 121>>

\* "apply_gc_bias"
KeyApplyGcBias ==
    <<97, 112, 112, 108, 121, 95, 103, 99, 95, 98, 105, 97, 115>>

\* "gc_bias_percent"
KeyGcBiasPercent ==
    <<103, 99, 95, 98, 105, 97, 115, 95, 112, 101, 114, 99, 101, 110, 116>>

\* "apply_fragment_model"
KeyApplyFragmentModel ==
    <<97, 112, 112, 108, 121, 95, 102, 114, 97, 103, 109, 101, 110, 116, 95,
      109, 111, 100, 101, 108>>

\* "read_filter_loss"
KeyReadFilterLoss ==
    <<114, 101, 97, 100, 95, 102, 105, 108, 116, 101, 114, 95, 108, 111,
      115, 115>>

\* "fragment_size"
KeyFragmentSize ==
    <<102, 114, 97, 103, 109, 101, 110, 116, 95, 115, 105, 122, 101>>

\* "read_length"
KeyReadLength == <<114, 101, 97, 100, 95, 108, 101, 110, 103, 116, 104>>

\* "num_amplicons"
KeyNumAmplicons ==
    <<110, 117, 109, 95, 97, 109, 112, 108, 105, 99, 111, 110, 115>>

\* "amplicon_size"
KeyAmpliconSize ==
    <<97, 109, 112, 108, 105, 99, 111, 110, 95, 115, 105, 122, 101>>

\* "target_fraction_pct"
KeyTargetFractionPct ==
    <<116, 97, 114, 103, 101, 116, 95, 102, 114, 97, 99, 116, 105, 111, 110,
      95, 112, 99, 116>>

\* "ddrad_mode"
KeyDdradMode == <<100, 100, 114, 97, 100, 95, 109, 111, 100, 101>>

\* "known_genome_input"
KeyKnownGenomeInput ==
    <<107, 110, 111, 119, 110, 95, 103, 101, 110, 111, 109, 101, 95, 105,
      110, 112, 117, 116>>

\* "Targeted Panel"
TxtTargetedPanel ==
    <<84, 97, 114, 103, 101, 116, 101, 100, 32, 80, 97, 110, 101, 108>>

\* "Samples per flow cell"
TxtSamplesPerFlowCell ==
    <<83, 97, 109, 112, 108, 101, 115, 32, 112, 101, 114, 32, 102, 108, 111,
      119, 32, 99, 101, 108, 108>>

\* "Custom"
TxtCustom == <<67, 117, 115, 116, 111, 109>>

\* "3.3 Gb"
Txt33Gb == <<51, 46, 51, 32, 71, 98>>

\* "NovaSeq 6000"
TxtNovaseq6000 == <<78, 111, 118, 97, 83, 101, 113, 32, 54, 48, 48, 48>>

\* "fraction_to_genome"
TxtFractionToGenome ==
    <<102, 114, 97, 99, 116, 105, 111, 110, 95, 116, 111, 95, 103, 101, 110,
      111, 109, 101>>

\* The dict load_query_params returns, entry by entry: the key, the cast
\* ("none" for params.get(key, default), otherwise
\* safe_cast(params.get(key), cast, default)) and the default.
QueryDefaults ==
    <<[key |-> KeyCoverageMode, cast |-> "none", default |-> PyStr(TxtTargetedPanel)],
      [key |-> KeyVariable, cast |-> "none", default |-> PyStr(TxtSamplesPerFlowCell)],
      [key |-> KeyPreset, cast |-> "none", default |-> PyStr(TxtCustom)],
      [key |-> KeyRegionInput, cast |-> "none", default |-> PyStr(Txt33Gb)],
      [key |-> KeyDepth, cast |-> "int", default |-> PyInt(30)],
      [key |-> KeySamples, cast |-> "int", default |-> PyInt(1)],
      [key |-> KeyDuplication, cast |-> "float", default |-> PyFloat(Rat(5, 2))],
      [key |-> KeyOnTarget, cast |-> "int", default |-> PyInt(85)],
      [key |-> KeyPlatform, cast |-> "none", default |-> PyStr(TxtNovaseq6000)],
      [key |-> KeyRuntimeHr, cast |-> "int", default |-> PyInt(48)],
      [key |-> KeyApplyComplexity, cast |-> "none", default |-> PyBool(FALSE)],
      [key |-> KeyApplyGcBias, cast |-> "none", default |-> PyBool(FALSE)],
      [key |-> KeyGcBiasPercent, cast |-> "float", default |-> PyFloat(Rat(5, 1))],
      [key |-> KeyApplyFragmentModel, cast |-> "none", default |-> PyBool(FALSE)],
      [key |-> KeyReadFilterLoss, cast |-> "float", default |-> PyFloat(Rat(5, 1))],
      [key |-> KeyFragmentSize, cast |-> "int", default |-> PyInt(300)],
      [key |-> KeyReadLength, cast |-> "int", default |-> PyInt(150)],
      [key |-> KeyNumAmplicons, cast |-> "int", default |-> PyInt(1380)],
      [key |-> KeyAmpliconSize, cast |-> "int", default |-> PyInt(175)],
      [key |-> KeyTargetFractionPct, cast |-> "float", default |-> PyFloat(Rat(2, 1))],
      [key |-> KeyDdradMode, cast |-> "none", default |-> PyStr(TxtFractionToGenome)],
      [key |-> KeyKnownGenomeInput, cast |-> "none", default |-> PyStr(Txt33Gb)]>>

\* The keys of the dict run() hands to update_query_params, in its order.
PersistedKeys ==
    <<KeyCoverageMode, KeyVariable, KeyPreset, KeyRegionInput, KeyDepth,
      KeySamples, KeyDuplication, KeyOnTarget, KeyPlatform, KeyRuntimeHr,
      KeyApplyComplexity, KeyApplyGcBias, KeyGcBiasPercent,
      KeyApplyFragmentModel, KeyReadFilterLoss, KeyFragmentSize,
      KeyReadLength, KeyNumAmplicons, KeyAmpliconSize, KeyTargetFractionPct,
      KeyDdradMode, KeyKnownGenomeInput>>

\* "zzz", a key that is none of the 22
KeyZzz == <<122, 122, 122>>

\* st.query_params is a function from the names present in the URL
\* ("config", "c") to their texts.  q.get(name) is an Optional text.
QGet(q, name) == IF name \in DOMAIN q THEN Some(q[name]) ELSE None

\* q[name] = text
QSet(q, name, text) ==
    [k \in DOMAIN q \cup {name} |-> IF k = name THEN text ELSE q[k]]

\* _read_config_blob(): q.get("config") or q.get("c")
read_config_blob(q) ==
    LET config == QGet(q, "config")
    IN  IF config # None /\ config[1] # <<>> THEN config ELSE QGet(q, "c")

\* The float a decimal of float_of stands for, as a rational.
DecToRat(x) ==
    IF "inf" \in DOMAIN x THEN [n |-> x.inf, d |-> 0]
    ELSE IF "nan" \in DOMAIN x THEN [n |-> 0, d |-> 0]
    ELSE IF x.e >= 0 THEN Float(x.m * Pow10(x.e))
    ELSE Rat(x.m, Pow10(-x.e))

\* int(text): white space, an optional sign and digits (the texts here
\* hold no underscores); anything else is a ValueError.
int_of(text) ==
    LET Digits0(s, sign, i0) ==
            IF i0 > Len(s) \/ SkipDigits(s, i0) # Len(s) + 1 THEN Raise("ValueError")
            ELSE Return(PyInt(sign * DigitsValue(s, i0, Len(s) + 1)))
        Stripped(s) ==
            IF s # <<>> /\ s[1] = ChMinus THEN Digits0(s, -1, 2)
            ELSE IF s # <<>> /\ s[1] = 43 THEN Digits0(s, 1, 2)
            ELSE Digits0(s, 1, 1)
    IN  Stripped(Strip(text))

\* int(val): an int is itself, a bool 0 or 1, a finite float is truncated,
\* nan is a ValueError and an infinity an OverflowError; None, a list and
\* a dict are a TypeError.
py_int(val) ==
    CASE val.t = "int" -> Return(val)
      [] val.t = "bool" -> Return(PyInt(IF val.v THEN 1 ELSE 0))
      [] val.t = "float" ->
            (IF val.v.d # 0 THEN Return(PyInt(IntTrunc(val.v)))
             ELSE IF val.v.n = 0 THEN Raise("ValueError")
             ELSE Raise("OverflowError"))
      [] val.t = "str" -> int_of(val.v)
      [] OTHER -> Raise("TypeError")

\* float(val): a float is itself, an int or a bool its value; a text is
\* parsed without regard to case ("inf" and "1e400" are infinities), and is
\* a ValueError when it is no number; None, a list and a dict are a
\* TypeError.
py_float(val) ==
    LET Parsed(parsed) ==
            IF parsed.exc # "none" THEN parsed
            ELSE Return(PyFloat(DecToRat(parsed.val)))
    IN  CASE val.t = "float" -> Return(val)
          [] val.t = "int" -> Return(PyFloat(Float(val.v)))
          [] val.t = "bool" -> Return(PyFloat(Float(IF val.v THEN 1 ELSE 0)))
          [] val.t = "str" -> Parsed(float_of(Lower(val.v)))
          [] OTHER -> Raise("TypeError")

\* safe_cast(val, to_type, default): only ValueError and TypeError are
\* caught.
safe_cast(val, to_type, default) ==
    LET Caught(cast) ==
            IF cast.exc \in {"ValueError", "TypeError"} THEN Return(default)
            ELSE cast
    IN  Caught(IF to_type = "int" THEN py_int(val) ELSE py_float(val))

\* params.get(key): None when the key is missing
DictGet(params, key) ==
    IF key \in DOMAIN params.v THEN params.v[key] ELSE PyNone

\* One entry of the dict load_query_params returns.
QueryEntry(params, entry) ==
    IF entry.cast = "none"
    THEN Return(IF entry.key \in DOMAIN params.v THEN params.v[entry.key]
                ELSE entry.default)
    ELSE safe_cast(DictGet(params, entry.key), entry.cast, entry.default)

\* load_query_params(): the dict (and whether st.warning was shown), or the
\* exception of the first entry whose cast raised.
load_query_params(q) ==
    LET Dict(entries, raised, warned) ==
            IF raised # {}
            THEN Raise(entries[CHOOSE i \in raised : \A j \in raised : i <= j].exc)
            ELSE [exc |-> "none",
                  val |-> PyDict([k \in {QueryDefaults[i].key : i \in DOMAIN entries} |->
                              entries[CHOOSE i \in DOMAIN entries :
                                          QueryDefaults[i].key = k].val]),
                  warned |-> warned]
        Entries(entries, warned) ==
            Dict(entries, {i \in DOMAIN entries : entries[i].exc # "none"}, warned)
        Params(loaded) ==
            Entries([i \in DOMAIN QueryDefaults |->
                        QueryEntry(loaded.params, QueryDefaults[i])],
                    loaded.warned)
        Decoded(decoded) ==
            IF decoded.exc = "none"
            THEN [params |-> decoded.val, warned |-> FALSE]
            ELSE [params |-> EmptyDict, warned |-> TRUE]
        Blob(encoded_config) ==
            Params(IF encoded_config # None /\ encoded_config[1] # <<>>
                   THEN Decoded(decode_config(encoded_config[1]))
                   ELSE [params |-> EmptyDict, warned |-> FALSE])
    IN  Blob(read_config_blob(q))

update_query_params_AlwaysWrites(q, params) ==
    [query_params |-> QSet(q, "config", encode_config(params, TRUE)),
     wrote |-> TRUE]

\* update_query_params(params): the URL afterwards, and whether
\* st.query_params["config"] was assigned.
update_query_params(q, params) ==
    LET encoded == encode_config(params, TRUE)
        differs == QGet(q, "config") # Some(encoded)
    IN  [query_params |-> IF differs THEN QSet(q, "config", encoded) ELSE q,
         wrote |-> differs]

\* The "Load from code" button of share_and_load_ui with the text area
\* holding pasted: the URL afterwards, whether st.rerun() was called, and
\* the message shown.
load_from_code(q, pasted) ==
    LET code == Strip(pasted)
        decoded == decode_config(code)
    IN  IF code = <<>>
        THEN [query_params |-> q, rerun |-> FALSE, message |-> "info"]
        ELSE IF decoded.exc = "none"
        THEN [query_params |-> QSet(q, "config", code), rerun |-> TRUE,
              message |-> "none"]
        ELSE [query_params |-> q, rerun |-> FALSE, message |-> "error"]

\* "x"
TxtX == <<120>>

\* " 12 "
TxtPadded12 == <<32, 49, 50, 32>>

\* "2.5E1"
Txt25e1 == <<50, 46, 53, 69, 49>>

\* "cc2.abc"
TxtShortV2 == <<99, 99, 50, 46, 97, 98, 99>>

\* "garbage!!"
TxtGarbage == <<103, 97, 114, 98, 97, 103, 101, 33, 33>>

\* base64 of {"depth":1e999}, a legacy code
TxtHugeDepth ==
    <<101, 121, 74, 107, 90, 88, 66, 48, 97, 67, 73, 54, 77, 87, 85, 53, 79,
      84, 108, 57>>

(***************************************************************************)
(* SpecUrl: the URL state handled by query_state.py.  inp is               *)
(* [query_params, params], a URL and the dict handed to                    *)
(* update_query_params, which is then called a second time with the same   *)
(* dict; or [query_params], a URL that load_query_params reads; or         *)
(* [query_params, pasted], a URL and the text in the text area when "Load  *)
(* from code" is pressed, after which the rerun reads the URL again.       *)
(* The stored configurations are short ones (a few of the 22 keys).        *)
(***************************************************************************)
\* Configurations stored in the URL: with a depth that is an int, a text
\* that is no number, a float, a bool, null, nan, an infinity, a list, a
\* padded number; with a duplication that is an int, a text, "inf"; with
\* values of wrong types for keys that are not cast, and a foreign key.
UrlDicts ==
    <<EmptyDict,
      PyDict(KeyDepth :> PyInt(40)),
      PyDict((KeyDepth :> PyStr(TxtX)) @@ (KeySamples :> PyInt(7))),
      PyDict(KeyDepth :> PyFloat(Rat(37, 10))),
      PyDict(KeyDepth :> PyBool(TRUE)),
      PyDict(KeyDepth :> PyNone),
      PyDict(KeyDepth :> PyNan),
      PyDict(KeyDepth :> PyInf),
      PyDict(KeySamples :> PyFloat([n |-> -1, d |-> 0])),
      PyDict(KeyDepth :> PyList(<<PyInt(1)>>)),
      PyDict(KeyDepth :> PyStr(TxtPadded12)),
      PyDict(KeyDuplication :> PyInt(3)),
      PyDict(KeyDuplication :> PyStr(Txt25e1)),
      PyDict(KeyDuplication :> PyStr(TxtInf)),
      PyDict(KeyDuplication :> PyStr(TxtX)),
      PyDict(KeyDuplication :> PyInf),
      PyDict(KeyVariable :> PyNone),
      PyDict((KeyVariable :> PyInt(5)) @@ (KeyZzz :> PyInt(1))),
      PyDict(KeyPreset :> PyStr(TxtCustom))>>

\* Their cc2 codes, some cc1 codes, and texts that are no code of a
\* configuration.
UrlBlobs ==
    {encode_config(UrlDicts[i], TRUE) : i \in DOMAIN UrlDicts}
    \cup {encode_config(UrlDicts[i], FALSE) : i \in 1..3}
    \cup {<<>>, TxtNull, TxtShortV2, TxtGarbage, TxtHugeDepth}

\* The dicts handed to update_query_params.
UpdateDicts ==
    <<EmptyDict,
      PyDict(KeyDepth :> PyInt(40)),
      PyDict(KeyDepth :> PyInt(41)),
      PyDict(KeyDuplication :> PyFloat(Rat(5, 2))),
      PyDict(KeyApplyGcBias :> PyBool(TRUE)),
      PyDict(KeyPreset :> PyStr(TxtCustom))>>

NoQueryParams == [k \in {} |-> <<>>]

\* URLs: with "config" only, with the alias "c" only, with an empty
\* "config" and "c", with both, and with neither.
UrlStates ==
    {"config" :> b : b \in UrlBlobs}
    \cup {"c" :> b : b \in {encode_config(UrlDicts[2], TRUE), TxtGarbage}}
    \cup {("config" :> <<>>) @@ ("c" :> encode_config(UrlDicts[2], TRUE)),
          ("config" :> encode_config(UrlDicts[3], TRUE))
              @@ ("c" :> encode_config(UrlDicts[2], TRUE)),
          NoQueryParams}

\* URLs before update_query_params: the codes of the dicts to come, a cc1
\* code, a text that is no code, the alias only, and nothing.
UrlsBeforeUpdate ==
    {"config" :> encode_config(UpdateDicts[i], TRUE) : i \in DOMAIN UpdateDicts}
    \cup {"config" :> encode_config(UpdateDicts[2], FALSE),
          "config" :> TxtShortV2,
          "c" :> encode_config(UpdateDicts[2], TRUE),
          NoQueryParams}

\* URLs before "Load from code".
UrlsBeforeLoad ==
    {NoQueryParams, "config" :> encode_config(UrlDicts[2], TRUE),
     "c" :> encode_config(UrlDicts[2], TRUE)}

\* The texts pasted: the stored texts, some with white space around them,
\* and white space alone.
PastedTexts ==
    UrlBlobs
    \cup {<<32>> \o encode_config(UrlDicts[2], TRUE) \o <<10>>,
          <<32, 9>>, <<32>> \o TxtShortV2, TxtNone}

InitUrl ==
    /\ pc = "args"
    /\ \/ \E q \in UrlsBeforeUpdate : \E i \in DOMAIN UpdateDicts :
              inp = [query_params |-> q, params |-> UpdateDicts[i]]
       \/ \E q \in UrlStates : inp = [query_params |-> q]
       \/ \E q \in UrlsBeforeLoad : \E t \in PastedTexts :
              inp = [query_params |-> q, pasted |-> t]
    /\ stages = Unset
    /\ calc = Unset
    /\ result = Unset

\* update_query_params(params) as run() calls it at the end of a script run
UpdateQueryParams ==
    /\ pc = "args"
    /\ "params" \in DOMAIN inp
    /\ result' = update_query_params(inp.query_params, inp.params)
    /\ pc' = "updated"
    /\ UNCHANGED <<inp, stages, calc>>

\* The next script run with the same state: update_query_params(params)
\* again, on the URL the first call left.
UpdateQueryParamsAgain ==
    /\ pc = "updated"
    /\ result' = [before |-> result.query_params, first_wrote |-> result.wrote]
                 @@ update_query_params(result.query_params, inp.params)
    /\ pc' = "updated_again"
    /\ UNCHANGED <<inp, stages, calc>>

\* load_query_params()
LoadQueryParams ==
    /\ pc = "args"
    /\ DOMAIN inp = {"query_params"}
    /\ result' = load_query_params(inp.query_params)
    /\ pc' = "loaded"
    /\ UNCHANGED <<inp, stages, calc>>

\* "Load from code" pressed
LoadFromCode ==
    /\ pc = "args"
    /\ "pasted" \in DOMAIN inp
    /\ result' = load_from_code(inp.query_params, inp.pasted)
    /\ pc' = "code_loaded"
    /\ UNCHANGED <<inp, stages, calc>>

\* st.rerun(): the script runs again and load_query_params() reads the URL
Rerun ==
    /\ pc = "code_loaded"
    /\ result.rerun
    /\ result' = [query_params |-> result.query_params,
                  loaded |-> load_query_params(result.query_params)]
    /\ pc' = "reran"
    /\ UNCHANGED <<inp, stages, calc>>

NextUrl ==
    \/ UpdateQueryParams
    \/ UpdateQueryParamsAgain
    \/ LoadQueryParams
    \/ LoadFromCode
    \/ Rerun

SpecUrl == InitUrl /\ [][NextUrl]_vars

(***************************************************************************)
(* Claims about compute_effective_output (SpecStages).                     *)
(***************************************************************************)
\* C1, as claimed: compute_effective_output never fails; for every
\* combination of inputs the call returns an EffectiveOutputStages value and
\* raises no error.
C1_NeverFails == pc # "args" => (pc = "returned" /\ stages.exc = "none")

\* C2: for base_output_bp >= 0 and read_filter_loss_pct q in [0, 100],
\* o0 = base_output_bp, o1 = o0 * (1 - q/100) and 0 <= o1 <= o0.
C2_FilterStage ==
    (/\ pc = "returned"
     /\ inp.base_output_bp >= 0
     /\ inp.read_filter_loss_pct \in 0..100) =>
        /\ stages.o0 = Float(inp.base_output_bp)
        /\ stages.o1.n * 100 =
               inp.base_output_bp * (100 - inp.read_filter_loss_pct) * stages.o1.d
        /\ RLe(Zero, stages.o1)
        /\ RLe(stages.o1, stages.o0)

\* C2 witness: a returned call with base 1000 and 50% filtering loss, where
\* o1 = 500 lies strictly between 0 and o0.
C2_Witness ==
    /\ pc = "returned"
    /\ inp.base_output_bp = 1000
    /\ inp.read_filter_loss_pct = 50
    /\ stages.o1 = Float(500)

\* C3, as claimed: the overlap correction triggers if and only if
\* 2 * read_length > fragment_size; when it does not trigger, o2 = o1 and
\* redundancy = 0.
C3_IffLengthsOnly ==
    (pc = "returned" /\ inp.fragment_size # None /\ inp.read_length # None) =>
        /\ stages.overlap_applies <=>
               (2 * inp.read_length[1] > inp.fragment_size[1])
        /\ ~stages.overlap_applies =>
               (stages.o2 = stages.o1 /\ stages.redundancy = Zero)

\* C3, amended: the overlap correction triggers if and only if the
\* apply_fragment_model toggle is on, fragment_size and read_length are both
\* given and positive, and 2 * read_length > fragment_size; when it does not
\* trigger, o2 = o1 and redundancy = 0.
C3_OverlapTrigger ==
    pc = "returned" =>
        /\ stages.overlap_applies <=>
               (/\ inp.apply_fragment_model
                /\ inp.fragment_size # None
                /\ inp.read_length # None
                /\ inp.fragment_size[1] > 0
                /\ inp.read_length[1] > 0
                /\ 2 * inp.read_length[1] > inp.fragment_size[1])
        /\ ~stages.overlap_applies =>
               (stages.o2 = stages.o1 /\ stages.redundancy = Zero)

\* C3 witness: the toggle is on, 2 * 100 = 200 does not exceed the fragment
\* size, and the correction did not trigger on a positive o1.
C3_Witness ==
    /\ pc = "returned"
    /\ inp.apply_fragment_model
    /\ inp.read_length = Some(100)
    /\ inp.fragment_size = Some(200)
    /\ ~stages.overlap_applies
    /\ stages.o2 = stages.o1
    /\ stages.o1.n > 0

\* C4: whenever overlap_applies, redundancy = (2L - F) / (2L), it lies in
\* [0, 1) and o2 = o1 * (1 - redundancy); L = 150, F = 200 gives
\* redundancy = 1/3 and o2 = (2/3) * o1.
C4_Redundancy ==
    (pc = "returned" /\ stages.overlap_applies) =>
        LET L == inp.read_length[1]
            F == inp.fragment_size[1]
            r == stages.redundancy
        IN  /\ r.n * (2 * L) = (2 * L - F) * r.d
            /\ 0 <= r.n
            /\ r.n < r.d
            /\ stages.o2.n * stages.o1.d * r.d =
                   stages.o1.n * (r.d - r.n) * stages.o2.d
            /\ (L = 150 /\ F = 200) =>
                   /\ r = [n |-> 1, d |-> 3]
                   /\ 3 * stages.o2.n * stages.o1.d = 2 * stages.o1.n * stages.o2.d

\* C4 witness: read_length 150, fragment_size 200 on o1 = 1000, where the
\* correction triggered with redundancy 1/3.
C4_Witness ==
    /\ pc = "returned"
    /\ stages.overlap_applies
    /\ inp.read_length = Some(150)
    /\ inp.fragment_size = Some(200)
    /\ stages.o1 = Float(1000)
    /\ stages.redundancy = [n |-> 1, d |-> 3]

\* C5, as claimed: in every returned snapshot, overlap_applies implies
\* o2 <= o1.
C5_OverlapReduces ==
    (pc = "returned" /\ stages.overlap_applies) => RLe(stages.o2, stages.o1)

\* C6, as claimed: in every returned snapshot, for any inputs, 0 <= o3.
C6_O3NonNegative == pc = "returned" => RLe(Zero, stages.o3)

\* C7, as claimed: eff_fraction = max(0, (1 - duplication_pct/100) *
\* (on_target_pct/100)) and eff_fraction is in [0, 1], for every
\* duplication_pct and on_target_pct supplied.
C7_EffFraction ==
    pc = "returned" =>
        LET raw == (100 - inp.duplication_pct) * inp.on_target_pct
            eff == stages.eff_fraction
        IN  /\ eff.n * 10000 = (IF raw > 0 THEN raw ELSE 0) * eff.d
            /\ 0 <= eff.n
            /\ eff.n <= eff.d

\* C8: eff_fraction is monotone; an evaluation that differs only by a larger
\* duplication_pct never has a larger eff_fraction, and one that differs only
\* by a larger on_target_pct never has a smaller eff_fraction.
C8_Monotone ==
    pc = "returned" =>
        /\ \A d \in PctValues :
               d >= inp.duplication_pct =>
                   RLe(EffFraction(d, inp.on_target_pct), stages.eff_fraction)
        /\ \A t \in PctValues :
               t >= inp.on_target_pct =>
                   RLe(stages.eff_fraction, EffFraction(inp.duplication_pct, t))

\* C8 witness: duplication 0, on-target 50 returned eff_fraction 1/2, which
\* a larger duplication (50) strictly lowers and a larger on-target (100)
\* strictly raises.
C8_Witness ==
    /\ pc = "returned"
    /\ inp.duplication_pct = 0
    /\ inp.on_target_pct = 50
    /\ stages.eff_fraction = [n |-> 1, d |-> 2]
    /\ RLt(EffFraction(50, 50), stages.eff_fraction)
    /\ RLt(stages.eff_fraction, EffFraction(0, 100))

(***************************************************************************)
(* Claims about CoverageCalculator (SpecCalc).                             *)
(***************************************************************************)
\* C9: construction succeeds if and only if region_size_bp > 0, depth > 0,
\* samples > 0, output_bp >= 0, 0 <= duplication_pct < 100 and
\* 0 < on_target_pct <= 100; any violation fails at construction with an
\* error (ValueError) and produces no calculator object.
C9_Construction ==
    pc # "args" =>
        LET valid ==
                /\ inp.region_size_bp.n > 0
                /\ inp.depth.n > 0
                /\ inp.samples.n > 0
                /\ inp.output_bp.n >= 0
                /\ 0 <= inp.duplication_pct.n
                /\ inp.duplication_pct.n < 100 * inp.duplication_pct.d
                /\ 0 < inp.on_target_pct.n
                /\ inp.on_target_pct.n <= 100 * inp.on_target_pct.d
        IN  /\ (pc = "constructed") <=> valid
            /\ valid => (calc.exc = "none" /\ "depth" \in DOMAIN calc)
            /\ ~valid =>
                   /\ pc = "raised"
                   /\ calc.exc = "ValueError"
                   /\ DOMAIN calc = {"exc", "msg"}
                   /\ result = Unset

\* C9 witness: arguments whose only violation is duplication_pct = 100 were
\* rejected by the constructor.
C9_Witness ==
    /\ pc = "raised"
    /\ inp.region_size_bp = Float(500)
    /\ inp.depth = Float(30)
    /\ inp.samples = Float(1)
    /\ inp.output_bp = Float(1000)
    /\ inp.duplication_pct = Float(100)
    /\ inp.on_target_pct = Float(100)
    /\ calc.msg = "duplication_pct must be in [0, 100)"

(***************************************************************************)
(* Claims about the end-to-end evaluation (SpecRun).                       *)
(***************************************************************************)
\* C10, as claimed: an evaluation with duplication at 100% or on-target at
\* 0% makes the samples-per-flow-cell operation return 0.0; it never raises.
C10_ZeroSamples ==
    (/\ pc # "widgets"
     /\ inp.variable = "Samples per flow cell"
     /\ (inp.duplication = 100 \/ inp.on_target = 0)) =>
        (pc = "shown" /\ result.out = Return(Zero))

\* C10, amended: an evaluation with duplication at 100% or on-target at 0%
\* (eff_fraction == 0) is rejected by the CoverageCalculator constructor with
\* a ValueError, so the samples-per-flow-cell operation is not reached and
\* no result is produced; on every calculator that is constructed the
\* operation returns a number, without raising or dividing by zero.
C10_RejectedAtConstruction ==
    (pc # "widgets" /\ inp.variable = "Samples per flow cell") =>
        /\ (inp.duplication = 100 \/ inp.on_target = 0) =>
               /\ stages.eff_fraction = Zero
               /\ pc = "raised"
               /\ calc.exc = "ValueError"
               /\ result = Unset
        /\ calc.exc = "none" =>
               /\ pc = "shown"
               /\ result.out.exc = "none"
               /\ RLt(Zero, effective_yield_fraction(calc))

\* C10 witness: solving for samples with on-target 0% and every other input
\* valid ended in the constructor's ValueError.
C10_Witness ==
    /\ pc = "raised"
    /\ inp.variable = "Samples per flow cell"
    /\ inp.on_target = 0
    /\ inp.duplication = 0
    /\ inp.depth = 30
    /\ inp.samples = 2
    /\ stages.eff_fraction = Zero
    /\ calc.msg = "on_target_pct must be in (0, 100]"

\* C11: on every constructed calculator calc_samples_per_flow_cell returns
\* output_bp / (region_size_bp * depth / eff) with
\* eff = (1 - duplication_pct/100) * (on_target_pct/100), i.e. the returned
\* count times region_size_bp * depth equals output_bp * eff; the human-genome
\* example has eff = 0.975 and 0.1477.. samples, the panel example eff = 0.68
\* and 2.04 samples.
C11_Eff(c) ==
    RMul(RSub(One, RDiv(c.duplication_pct, Float(100))),
         RDiv(c.on_target_pct, Float(100)))

C11_IsSamplesResult ==
    /\ pc = "constructed"
    /\ result # Unset
    /\ result.op = "calc_samples_per_flow_cell"

C11_SamplesFormula ==
    C11_IsSamplesResult =>
        /\ result.out.exc = "none"
        /\ RMul(result.out.val, RMul(calc.region_size_bp, calc.depth))
             = RMul(calc.output_bp, C11_Eff(calc))
        /\ (calc.region_size_bp = Float(3300) /\ inp \in WorkedExamples) =>
               /\ C11_Eff(calc) = Rat(975, 1000)
               /\ RLe(Rat(1477, 10000), result.out.val)
               /\ RLt(result.out.val, Rat(1478, 10000))
        /\ (calc.region_size_bp = Float(50) /\ inp \in WorkedExamples) =>
               /\ C11_Eff(calc) = Rat(68, 100)
               /\ result.out.val = Rat(204, 100)

C11_Witness ==
    /\ C11_IsSamplesResult
    /\ inp \in WorkedExamples
    /\ calc.duplication_pct = Rat(5, 2)
    /\ result.out.val = Rat(65, 440)

\* C12: on every constructed calculator calc_depth() * region_size_bp and
\* calc_genome_size() * depth both equal (output_bp / samples) * eff;
\* calc_depth is the same whatever the depth field holds and calc_genome_size
\* the same whatever the region_size_bp field holds.
C12_UsableBases ==
    RMul(RDiv(calc.output_bp, calc.samples), C11_Eff(calc))

C12_DepthAndGenomeSize ==
    (pc = "constructed" /\ result # Unset) =>
        /\ result.op = "calc_depth" =>
               /\ result.out.exc = "none"
               /\ RMul(result.out.val, calc.region_size_bp) = C12_UsableBases
               /\ \A d \in CalcDepthValues :
                      RLt(Zero, d) =>
                          calc_depth([calc EXCEPT !.depth = d]) = result.out
        /\ result.op = "calc_genome_size" =>
               /\ result.out.exc = "none"
               /\ RMul(result.out.val, calc.depth) = C12_UsableBases
               /\ \A r \in CalcRegionValues :
                      RLt(Zero, r) =>
                          calc_genome_size([calc EXCEPT !.region_size_bp = r])
                              = result.out

C12_Witness ==
    /\ pc = "constructed"
    /\ result # Unset
    /\ result.op = "calc_depth"
    /\ RLt(Zero, result.out.val)
    /\ calc.depth # calc.region_size_bp
    /\ calc.samples = Float(2)

\* C13 (as stated): for any valid parameters, a calculator constructed with
\* samples = calc_samples_per_flow_cell() and the same region size, output,
\* duplication and on-target is accepted and its calc_depth() reproduces the
\* original depth.
C13_RoundTrip ==
    /\ pc # "rejected"
    /\ pc = "round_trip" =>
           (result.out.exc = "none" /\ result.out.val = inp.depth)

\* C13 (amended): the round trip reproduces the original depth exactly when
\* output_bp > 0; with output_bp = 0 the solved sample count is 0 and the
\* second construction is rejected with "samples must be > 0".
C13_RoundTripPositiveOutput ==
    /\ pc = "reconstructed" =>
           (RLt(Zero, inp.output_bp) /\ calc.samples = result.out.val)
    /\ pc = "round_trip" =>
           /\ RLt(Zero, inp.output_bp)
           /\ result.out.exc = "none"
           /\ result.out.val = inp.depth
    /\ pc = "rejected" =>
           /\ inp.output_bp = Zero
           /\ result.out.val = Zero
           /\ calc.msg = "samples must be > 0"

C13_Witness ==
    /\ pc = "round_trip"
    /\ inp \in WorkedExamples
    /\ inp.depth = Float(30)
    /\ calc.samples = Rat(13, 88)
    /\ result.out.val = Float(30)

\* C14: an evaluation is either rejected at construction, and then no solve
\* operation has run, or the object is constructed and each of
\* calc_samples_per_flow_cell, calc_depth and calc_genome_size returns a
\* number >= 0 without raising, on every call.
C14_Solves(self) ==
    {calc_samples_per_flow_cell(self), calc_depth(self), calc_genome_size(self)}

C14_NoPartialFailure ==
    /\ pc = "raised" => (calc.exc = "ValueError" /\ result = Unset)
    /\ pc = "constructed" =>
           /\ calc.exc = "none"
           /\ \A out \in C14_Solves(calc) :
                  out.exc = "none" /\ RLe(Zero, out.val)
           /\ result # Unset =>
                  (result.out.exc = "none" /\ RLe(Zero, result.out.val))

C14_Witness ==
    /\ pc = "constructed"
    /\ result # Unset
    /\ result.op = "calc_genome_size"
    /\ calc.output_bp = Zero
    /\ result.out = Return(Zero)

\* C15: once constructed, the EffectiveOutputStages snapshot and the
\* CoverageCalculator never change: every step of every operation leaves
\* each field at its constructed value, so a constructed calculator always
\* satisfies the constructor's constraints.
C15_Valid(c) ==
    /\ RLt(Zero, c.region_size_bp) /\ RLt(Zero, c.depth) /\ RLt(Zero, c.samples)
    /\ RLe(Zero, c.output_bp)
    /\ RLe(Zero, c.duplication_pct) /\ RLt(c.duplication_pct, Float(100))
    /\ RLt(Zero, c.on_target_pct) /\ RLe(c.on_target_pct, Float(100))

C15_FieldsNeverChange ==
    [][/\ stages # Unset => stages' = stages
       /\ calc # Unset => calc' = calc
       /\ pc' = "constructed" =>
              /\ C15_Valid(calc')
              /\ \A f \in {"region_size_bp", "depth", "samples", "output_bp",
                            "duplication_pct", "on_target_pct"} :
                     calc'[f] = EvalCalcArgs(inp, stages')[f]]_vars

C15_Witness ==
    /\ pc = "constructed"
    /\ result # Unset
    /\ result.op = "calc_depth"
    /\ RLt(Zero, result.out.val)
    /\ stages.exc = "none"
    /\ calc.output_bp = stages.o4
    /\ calc.depth = Float(30)

\* C16: the stage chain clamps its inputs from below: a negative
\* base_output_bp gives o0 = 0; a negative read_filter_loss_pct filters
\* nothing (o1 = o0); a region_size_bp below 1 enters the complexity stage as
\* 1 (o3 = 1 - exp(-o2)); a negative gc_bias_pct removes nothing (o4 = o3); a
\* negative duplication_pct counts as 0 (eff_fraction = max(0, on_target)/100)
\* and a negative on_target_pct counts as 0 (eff_fraction = 0).
C16_ClampsInputs ==
    pc = "returned" =>
        /\ inp.base_output_bp < 0 => stages.o0 = Zero
        /\ inp.read_filter_loss_pct < 0 => stages.o1 = stages.o0
        /\ (inp.region_size_bp < 1 /\ inp.apply_complexity) =>
               stages.o3 = RSub(One, Exp(RSub(Zero, stages.o2)))
        /\ inp.gc_bias_pct < 0 => stages.o4 = stages.o3
        /\ inp.duplication_pct < 0 =>
               RMul(stages.eff_fraction, Float(100))
                   = Float(IMax(0, inp.on_target_pct))
        /\ inp.on_target_pct < 0 => stages.eff_fraction = Zero

C16_Witness ==
    /\ pc = "returned"
    /\ inp.base_output_bp > 0
    /\ inp.read_filter_loss_pct < 0
    /\ inp.region_size_bp < 1
    /\ inp.apply_complexity
    /\ inp.apply_gc_bias
    /\ inp.gc_bias_pct < 0
    /\ inp.duplication_pct < 0
    /\ inp.on_target_pct = 100
    /\ stages.o1 = Float(1000)
    /\ stages.o4 = stages.o3
    /\ stages.eff_fraction = One

\* C17: eff_fraction and the O-chain are independent of each other.  Every
\* returned eff_fraction equals the one returned for the same duplication_pct
\* and on_target_pct with all other inputs at fixed reference values, so two
\* evaluations that agree on the two percentages have equal eff_fraction; and
\* o0..o4, overlap_applies and redundancy equal those of the evaluation that
\* differs only in having duplication_pct = 0 and on_target_pct = 100, so two
\* evaluations that differ only in the two percentages have the same chain.
C17_Reference(duplication_pct, on_target_pct) ==
    [base_output_bp |-> 1000, read_filter_loss_pct |-> 0,
     apply_fragment_model |-> FALSE, fragment_size |-> None, read_length |-> None,
     apply_complexity |-> FALSE, apply_gc_bias |-> FALSE, gc_bias_pct |-> 50,
     region_size_bp |-> 1000, duplication_pct |-> duplication_pct,
     on_target_pct |-> on_target_pct]

C17_Chain(st) ==
    <<st.o0, st.o1, st.o2, st.o3, st.o4, st.overlap_applies, st.redundancy>>

C17_Independent ==
    pc = "returned" =>
        /\ stages.eff_fraction
             = compute_effective_output(
                   C17_Reference(inp.duplication_pct, inp.on_target_pct)).eff_fraction
        /\ LET other == compute_effective_output(
                            [inp EXCEPT !.duplication_pct = 0, !.on_target_pct = 100])
           IN  other.exc = "none" /\ C17_Chain(other) = C17_Chain(stages)

C17_Witness ==
    /\ pc = "returned"
    /\ inp.duplication_pct = 50
    /\ inp.on_target_pct = 50
    /\ inp.read_filter_loss_pct = 50
    /\ inp.apply_complexity
    /\ inp.apply_gc_bias
    /\ stages.overlap_applies
    /\ stages.eff_fraction = Rat(1, 4)
    /\ RLt(Zero, stages.o4)
    /\ RLt(stages.o4, stages.o0)

\* C18 (as stated): with apply_complexity false o3 = o2, with apply_gc_bias
\* false o4 = o3, with apply_fragment_model false o2 = o1, and with GC bias
\* enabled o4 = o3 * (1 - gc_bias_pct/100).
C18_DisabledUnchanged ==
    pc = "returned" =>
        /\ ~inp.apply_complexity => stages.o3 = stages.o2
        /\ ~inp.apply_gc_bias => stages.o4 = stages.o3
        /\ ~inp.apply_fragment_model => stages.o2 = stages.o1
        /\ inp.apply_gc_bias =>
               stages.o4 = RMul(stages.o3,
                                RSub(One, Rat(inp.gc_bias_pct, 100)))

\* C18 (amended): the same, with the GC bias clamped at zero from below:
\* with GC bias enabled o4 = o3 * (1 - max(0, gc_bias_pct)/100).
C18_DisabledUnchangedClampedGc ==
    pc = "returned" =>
        /\ ~inp.apply_complexity => stages.o3 = stages.o2
        /\ ~inp.apply_gc_bias => stages.o4 = stages.o3
        /\ ~inp.apply_fragment_model => stages.o2 = stages.o1
        /\ inp.apply_gc_bias =>
               stages.o4 = RMul(stages.o3,
                                RSub(One, Rat(IMax(0, inp.gc_bias_pct), 100)))

C18_Witness ==
    /\ pc = "returned"
    /\ ~inp.apply_complexity
    /\ ~inp.apply_fragment_model
    /\ inp.fragment_size = Some(200)
    /\ inp.read_length = Some(150)
    /\ inp.apply_gc_bias
    /\ inp.gc_bias_pct = 50
    /\ stages.o1 = Float(500)
    /\ stages.o3 = Float(500)
    /\ stages.o4 = Float(250)

\* The runs that reach the ddRAD branch of the genome-size result: the
\* calculator was constructed, the variable is "Genome size" and ddRAD is on.
C19_DdradRun(mode) ==
    /\ pc # "widgets"
    /\ calc # Unset
    /\ calc.exc = "none"
    /\ inp.variable = "Genome size"
    /\ inp.ddrad_enabled
    /\ inp.ddrad_mode = mode

\* C19 (as stated): in mode fraction_to_genome the reported whole-genome
\* size is G_target / (f/100) with f the target-fraction percent clamped to a
\* minimum of 0.0001 percent, the divisor never being below 0.000001.
C19_PercentClamped ==
    C19_DdradRun("fraction_to_genome") =>
        LET f == RMax(Rat(1, 10000), Float(inp.target_fraction_pct))
            divisor == RDiv(f, Float(100))
        IN  /\ pc = "shown"
            /\ RLe(Rat(1, 1000000), divisor)
            /\ RMul(result.out.val, divisor) = calc_genome_size(calc).val

\* C19 (amended): the reported whole-genome size is G_target / d with
\* d = max(0.0001, target_fraction_pct / 100): the fraction, not the percent,
\* is clamped at 0.0001, so the percent is in effect clamped at 0.01 and the
\* divisor is never below 0.0001.
C19_FractionClamped ==
    C19_DdradRun("fraction_to_genome") =>
        LET divisor == RMax(Rat(1, 10000), Rat(inp.target_fraction_pct, 100))
        IN  /\ pc = "shown"
            /\ result.label = "Supported Whole-Genome Size (ddRAD)"
            /\ RLe(Rat(1, 10000), divisor)
            /\ RMul(result.out.val, divisor) = calc_genome_size(calc).val

C19_Witness ==
    /\ C19_DdradRun("fraction_to_genome")
    /\ pc = "shown"
    /\ inp.target_fraction_pct = 0
    /\ calc_genome_size(calc).val = Float(5)
    /\ result.out.val = Float(50000)

\* C20: in mode genome_to_fraction the reported fraction is
\* (G_target / G_known) * 100 clamped into [0, 100] when G_known > 0, and 0.0
\* when G_known <= 0 or the known-genome text does not parse; no exception
\* leaves the branch.
C20_KnownGenomeFraction ==
    C19_DdradRun("genome_to_fraction") =>
        LET known == KnownGenomeBp(inp.known_genome_input)
            scaled == RMul(calc_genome_size(calc).val, Float(100))
        IN  /\ pc = "shown"
            /\ result.label = "Target fraction of genome (ddRAD)"
            /\ ~inp.known_genome_input.parses => result.out.val = Zero
            /\ known <= 0 => result.out.val = Zero
            /\ known > 0 =>
                   /\ RLe(Zero, result.out.val)
                   /\ RLe(result.out.val, Float(100))
                   /\ RLe(scaled, Float(100 * known)) =>
                          RMul(result.out.val, Float(known)) = scaled
                   /\ RLt(Float(100 * known), scaled) =>
                          result.out.val = Float(100)

C20_Witness ==
    /\ C19_DdradRun("genome_to_fraction")
    /\ pc = "shown"
    /\ inp.known_genome_input.parses
    /\ inp.known_genome_input.bp = 4
    /\ calc_genome_size(calc).val = Float(5)
    /\ result.out.val = Float(100)

C22_NoDdrad(w) ==
    [w EXCEPT !.ddrad_enabled = FALSE, !.ddrad_mode = "fraction_to_genome",
              !.target_fraction_pct = 50,
              !.known_genome_input = [parses |-> FALSE]]

C22_DdradOnlyGenomeSize ==
    (pc # "widgets" /\ calc # Unset /\ calc.exc = "none") =>
        /\ inp.variable = "Samples per flow cell" =>
               /\ result.out = calc_samples_per_flow_cell(calc)
               /\ result = ResultMetric(C22_NoDdrad(inp), calc)
        /\ inp.variable = "Depth" =>
               /\ result.out = calc_depth(calc)
               /\ result = ResultMetric(C22_NoDdrad(inp), calc)
        /\ (inp.variable = "Genome size" /\ ~inp.ddrad_enabled) =>
               /\ result.out = calc_genome_size(calc)
               /\ result.label = "Supported Region Size"
        /\ stages = compute_effective_output(RunStageArgs(C22_NoDdrad(inp)))
        /\ calc = CoverageCalculator(RunCalcArgs(C22_NoDdrad(inp), stages))

C22_Witness ==
    /\ pc = "shown"
    /\ inp.variable = "Depth"
    /\ inp.ddrad_enabled
    /\ inp.ddrad_mode = "fraction_to_genome"
    /\ inp.target_fraction_pct = 0
    /\ inp.known_genome_input = [parses |-> TRUE, bp |-> 4]
    /\ result.label = "Estimated Depth"
    /\ RLt(Zero, result.out.val)

\* C23: in run() the calculator is constructed on the stage chain's o4 and on
\* the duplication and on-target values the chain was given; whenever the
\* constructor accepts, its effective-yield fraction equals
\* stages.eff_fraction, and the solved quantity times the two given
\* quantities equals o4 * eff_fraction, the fraction entering once.
C23_Constructed ==
    /\ pc # "widgets"
    /\ calc # Unset
    /\ calc.exc = "none"

C23_SolverGetsO4 ==
    C23_Constructed =>
        /\ calc.output_bp = stages.o4
        /\ calc.duplication_pct = Float(RunStageArgs(inp).duplication_pct)
        /\ calc.on_target_pct = Float(RunStageArgs(inp).on_target_pct)
        /\ effective_yield_fraction(calc) = stages.eff_fraction
        /\ LET usable == RMul(stages.o4, stages.eff_fraction)
           IN  /\ RMul(calc_samples_per_flow_cell(calc).val,
                       RMul(calc.region_size_bp, calc.depth)) = usable
               /\ RMul(calc_depth(calc).val,
                       RMul(calc.region_size_bp, calc.samples)) = usable
               /\ RMul(calc_genome_size(calc).val,
                       RMul(calc.depth, calc.samples)) = usable
               /\ inp.variable = "Samples per flow cell" =>
                      result.out.val = calc_samples_per_flow_cell(calc).val
               /\ inp.variable = "Depth" =>
                      result.out.val = calc_depth(calc).val

C23_Witness ==
    /\ C23_Constructed
    /\ pc = "shown"
    /\ inp.variable = "Samples per flow cell"
    /\ inp.duplication = 50
    /\ inp.on_target = 50
    /\ inp.read_filter_loss = 20
    /\ inp.apply_gc_bias
    /\ stages.eff_fraction = Rat(1, 4)
    /\ RLt(stages.o4, stages.o0)
    /\ RLt(Zero, result.out.val)

(***************************************************************************)
(* Claims about config_codec (SpecCodec).                                  *)
(***************************************************************************)
\* A value of the types JSON has: None, bool, int, finite float, str, list
\* and dict with text keys, all the way down.
RECURSIVE IsJsonNative(_)
IsJsonNative(value) ==
    CASE value.t \in {"None", "bool", "int", "str"} -> TRUE
      [] value.t = "float" -> value.v.d # 0
      [] value.t = "list" -> \A k \in 1..Len(value.v) : IsJsonNative(value.v[k])
      [] value.t = "dict" -> \A k \in DOMAIN value.v : IsJsonNative(value.v[k])
      [] OTHER -> FALSE

\* Python's a == b on these values: numbers by value (bool counts as int),
\* nan equal to nothing, sequences of the same type item by item, dicts
\* key by key.
RECURSIVE PyEq(_, _)
PyEq(a, b) ==
    LET number(x) == x.t \in {"int", "float", "bool"}
        rat(x) == CASE x.t = "int" -> Float(x.v)
                    [] x.t = "bool" -> Float(IF x.v THEN 1 ELSE 0)
                    [] OTHER -> x.v
    IN  IF number(a) /\ number(b)
        THEN (rat(a) = rat(b)) /\ ~(rat(a).d = 0 /\ rat(a).n = 0)
        ELSE IF a.t # b.t THEN FALSE
        ELSE IF a.t \in {"list", "tuple"}
        THEN /\ Len(a.v) = Len(b.v)
             /\ \A k \in 1..Len(a.v) : PyEq(a.v[k], b.v[k])
        ELSE IF a.t = "dict"
        THEN /\ DOMAIN a.v = DOMAIN b.v
             /\ \A k \in DOMAIN a.v : PyEq(a.v[k], b.v[k])
        ELSE a = b

C24_RoundTripped == pc \in {"decoded", "decoded_legacy"}

C25_WellFormedV2(s) ==
    LET parts == Split(s, 2)
        blob == b64url_decode(parts[3])
        json_bytes == zlib_decompress(blob.val)
    IN  /\ Len(parts) = 3
        /\ parts[1] = SCHEME_V2
        /\ blob.exc = "none"
        /\ json_bytes.exc = "none"
        /\ Lower(parts[2]) = CrcHex(crc32(json_bytes.val))
        /\ LoadsDict(json_bytes.val).exc = "none"

\* A cc1 string ("cc1." and base64 of a JSON object) or the bare base64 of
\* a JSON object.
C25_WellFormedV1OrLegacy(s) ==
    LET b64 == IF StartsWith(s, SCHEME_V1 \o <<ChDot>>)
               THEN SubSeq(s, 5, Len(s)) ELSE s
        json_bytes == b64url_decode(b64)
    IN  /\ ~StartsWith(s, SCHEME_V2 \o <<ChDot>>)
        /\ json_bytes.exc = "none"
        /\ LoadsDict(json_bytes.val).exc = "none"

\* C25: decode_config returns a dict or raises ValueError, and it raises
\* ValueError for every non-empty text other than "null" and "None" that is
\* neither a well-formed cc2 string, nor a cc1 string, nor legacy base64 of
\* a JSON object.
C25_RejectsMalformed ==
    pc = "decoded_text" =>
        /\ result.out.exc \in {"none", "ValueError"}
        /\ result.out.exc = "none" => result.out.val.t = "dict"
        /\ (/\ inp.s # <<>>
            /\ inp.s \notin {TxtNull, TxtNone}
            /\ ~C25_WellFormedV2(inp.s)
            /\ ~C25_WellFormedV1OrLegacy(inp.s))
           => result.out.exc = "ValueError"

(***************************************************************************)
(* Claims about unit_parser (SpecParse).                                   *)
(***************************************************************************)
\* A number as documented: plain, decimal or scientific, that is, a text
\* float() reads as a finite number.
C26_IsNumber(text) ==
    /\ float_of(Lower(text)).exc = "none"
    /\ text = Strip(text)
    /\ 32 \notin {text[k] : k \in 1..Len(text)}
    /\ ~(Lower(SubSeq(text, Len(text), Len(text))) \in {<<98>>, <<103>>, <<107>>, <<109>>})
    /\ LET body == IF text[1] \in {43, ChMinus} THEN Tail(Lower(text)) ELSE Lower(text)
       IN  body \notin {TxtInf, TxtInfinityLower, TxtNanLower}

\* The factor of a documented unit: Gb, G, Mb, M, Kb, K, bp, b in any case,
\* the forms Gbp, Mbp, Kbp, or none.
C26_UnitFactor(unit) ==
    LET u == Lower(unit)
    IN  CASE u \in {<<103, 98>>, <<103>>, <<103, 98, 112>>} -> 1000000000
          [] u \in {<<109, 98>>, <<109>>, <<109, 98, 112>>} -> 1000000
          [] u \in {<<107, 98>>, <<107>>, <<107, 98, 112>>} -> 1000
          [] u \in {<<98, 112>>, <<98>>, <<>>} -> 1
          [] OTHER -> 0

C26_Documented(w) == C26_IsNumber(w.number) /\ C26_UnitFactor(w.unit) # 0

\* C26: a documented form (number, optional spaces, optional unit in any
\* case, Kbp-style included) returns int(number * factor of the unit);
\* every other input raises ValueError.
C26_ParsesDocumentedForms ==
    pc \in {"parsed", "raised"} =>
        IF C26_Documented(inp)
        THEN /\ result.out.exc = "none"
             /\ result.out
                  = DecInt(DecMul(float_of(Lower(inp.number)).val,
                                  C26_UnitFactor(inp.unit)))
        ELSE result.out = Raise("ValueError")

(***************************************************************************)
(* Claims about compute_effective_output in double precision (SpecTiny).   *)
(***************************************************************************)
\* a <= b for two doubles [bp, ulps] (fewer than 2^53 ulps each)
C27_Le(a, b) == a.bp < b.bp \/ (a.bp = b.bp /\ a.ulps <= b.ulps)

C28_First(encoded) ==
    /\ result.wrote <=> (QGet(inp.query_params, "config") # Some(encoded))
    /\ QGet(result.query_params, "config") = Some(encoded)
    /\ \A k \in (DOMAIN inp.query_params \cup DOMAIN result.query_params)
                    \ {"config"} :
           QGet(result.query_params, k) = QGet(inp.query_params, k)
    /\ ~result.wrote => result.query_params = inp.query_params

\* After the repeated call: no write, and the URL is the one the first call
\* left, its entry still equal to encoded.
C28_Second(encoded) ==
    /\ ~result.wrote
    /\ result.query_params = result.before
    /\ QGet(result.query_params, "config") = Some(encoded)

\* C28: update_query_params writes the URL "config" entry if and only if it
\* differs from encode_config(params); after the call the entry equals
\* encode_config(params); an immediately repeated call with equal params
\* performs no write and leaves the URL unchanged.
C28_WritesIffDiffers ==
    /\ pc = "updated" => C28_First(encode_config(inp.params, TRUE))
    /\ pc = "updated_again" => C28_Second(encode_config(inp.params, TRUE))

\* The URL held another configuration's code, the first call replaced it,
\* and the repeated call wrote nothing.
C28_Witness ==
    /\ pc = "updated_again"
    /\ QGet(inp.query_params, "config") # None
    /\ result.first_wrote
    /\ ~result.wrote
    /\ result.query_params # inp.query_params

\* Every key of the returned dict holds its default.
C29_AllDefaults(dict) ==
    \A i \in DOMAIN QueryDefaults :
        dict.v[QueryDefaults[i].key] = QueryDefaults[i].default

\* The config blob is absent (or empty), or decode_config rejects it.
C29_NoConfig(blob) ==
    \/ blob = None
    \/ blob[1] = <<>>
    \/ decode_config(blob[1]).exc # "none"

\* C29, as claimed: load_query_params never raises and always returns a
\* dict with exactly the 22 keys that run() persists via update_query_params,
\* every key taking its default when the config blob is absent or cannot be
\* decoded.
C29_NeverRaisesSameKeys ==
    pc = "loaded" =>
        /\ result.exc = "none"
        /\ DOMAIN result.val.v = {PersistedKeys[i] : i \in DOMAIN PersistedKeys}
        /\ Cardinality(DOMAIN result.val.v) = 22
        /\ C29_NoConfig(read_config_blob(inp.query_params))
               => C29_AllDefaults(result.val)

\* The code is a valid encoded configuration: a well-formed cc2 string, a
\* cc1 string, or legacy base64 of a JSON object.
C30_ValidCode(code) == C25_WellFormedV2(code) \/ C25_WellFormedV1OrLegacy(code)

\* "Load from code" has acted on code: the URL and the rerun flag.
C30_Pressed(code, decoded) ==
    IF code = <<>> \/ decoded.exc # "none"
    THEN /\ result.query_params = inp.query_params
         /\ ~result.rerun
    ELSE /\ result.query_params = QSet(inp.query_params, "config", code)
         /\ result.rerun
         /\ C30_ValidCode(code)

\* The rerun's load_query_params() has read the accepted code: it returns,
\* without a warning, the configuration that the code decodes to.
C30_Reloaded(loaded, decoded) ==
    /\ loaded.exc = "none"
    /\ ~loaded.warned
    /\ decoded.exc = "none"
    /\ \A i \in DOMAIN QueryDefaults :
           Return(loaded.val.v[QueryDefaults[i].key])
               = QueryEntry(decoded.val, QueryDefaults[i])

\* C30, as claimed: "Load from code" replaces the URL "config" entry only
\* with a pasted code that is a valid encoded configuration; an empty code
\* or one that does not decode leaves the entry unchanged and triggers no
\* rerun; every accepted code is one that load_query_params then decodes to
\* the configuration it encodes.
C30_OnlyValidCodes ==
    /\ pc = "code_loaded" =>
           C30_Pressed(Strip(inp.pasted), decode_config(Strip(inp.pasted)))
    /\ pc = "reran" =>
           C30_Reloaded(result.loaded, decode_config(Strip(inp.pasted)))

====
